---- MODULE Spec2Model ----
(***************************************************************************)
(* A model of the snake game: the Snake class (snake.js), the Food class   *)
(* (food.js), the GameState screen machine (state.js), the helpers of      *)
(* utils.js and the Game orchestrator (game.js).                            *)
(*                                                                         *)
(* Sequences are 1-based here and 0-based in the source: body[1] is the    *)
(* head (this._body[0]) and body[2] is the neck (this._body[1]).           *)
(***************************************************************************)
EXTENDS Integers, Sequences, FiniteSets, TLC

\* ------------------------------------------------------------------------
\* Constants of constants.js, and the bounds of the model
\* ------------------------------------------------------------------------

\* Side of the grid the Game plays on.  constants.js sets 20; the model
\* plays on the smallest grid the initial three segments fit in.
GRID_SIZE == 4

MAX_DIRECTION_QUEUE == 2

POINTS_PER_FOOD == 10

POINTS_PER_LEVEL == 50

MAX_LEVEL == 10
BASE_TICK_MS == 200
SPEED_INCREMENT_MS == 20
MIN_TICK_MS == 60

\* Ticks of one behaviour of SpecFrames.
MaxFrameTicks == 3

\* Ticks of one behaviour of SpecLevelUpFrames.
MaxLevelUpTicks == 5

\* The ticks of a run of SpecClock, and its last timestamp in ms
MaxClockTicks == 3
MaxTimestamp == 1500

\* The score up to which a tick of SpecLoop may eat, and the last timestamp
\* of a run of SpecLoop in ms
MaxLoopScore == 500
MaxLoopTimestamp == 6200

\* Ticks of one behaviour of SpecFaultyStorage.
MaxFaultyTicks == 3

\* Levels tickIntervalForLevel is called with in SpecUtils.
MaxUtilLevel == 12

\* Largest magnitude of the arguments of randomInt and clamp in SpecUtils.
MaxUtilArg == 3

\* Snake.move() calls made on one Snake object in SpecSnake.
MaxMoves == 5

\* Largest grid side handed to new Snake(gridSize) in SpecSnake.
MaxSnakeGrid == 5

\* Largest grid side handed to new Food(gridSize) in SpecFood.
MaxFoodGrid == 2

\* Longest occupied-cell list handed to Food.spawn in SpecFood.
MaxOccupied == 4

\* addScore() calls are made while the score is below this in SpecState.
MaxScore == 500

\* Largest high score new GameState(initialHighScore) is given in SpecState.
MaxInitialHighScore == 30

\* Ticks run in one behaviour of SpecStorage.
MaxStorageTicks == 4

\* Ticks run in one behaviour of SpecSession.
MaxSessionTicks == 3

\* null, as a value comparable with cells and directions
Null == [null |-> TRUE]

\* No error raised
NoError == "none"

DIRECTIONS ==
  [UP    |-> [dx |-> 0,  dy |-> -1, name |-> "UP"],
   DOWN  |-> [dx |-> 0,  dy |-> 1,  name |-> "DOWN"],
   LEFT  |-> [dx |-> -1, dy |-> 0,  name |-> "LEFT"],
   RIGHT |-> [dx |-> 1,  dy |-> 0,  name |-> "RIGHT"]]

OPPOSITE_DIRECTIONS ==
  [UP |-> "DOWN", DOWN |-> "UP", LEFT |-> "RIGHT", RIGHT |-> "LEFT"]

SCREENS ==
  [MENU |-> "MENU", PLAYING |-> "PLAYING", PAUSED |-> "PAUSED",
   GAME_OVER |-> "GAME_OVER", WIN |-> "WIN"]

DirNames == {"UP", "DOWN", "LEFT", "RIGHT"}

\* The direction objects an input handler can deliver.
Dirs == {DIRECTIONS[n] : n \in DirNames}

\* ------------------------------------------------------------------------
\* State
\* ------------------------------------------------------------------------
VARIABLES
  gridSize,        \* Snake._gridSize / Food._gridSize
  body,            \* Snake._body, head first
  direction,       \* Snake._direction
  directionQueue,  \* Snake._directionQueue
  pendingGrowth,   \* Snake._pendingGrowth
  position,        \* Food._position (Null: no active food)
  state,           \* the GameState: screen, score, level, highScore, isNewRecord
  hasGame,         \* Game._snake and Game._food are not null
  occupiedCells,   \* the argument of the last Food.spawn call
  moves,           \* the number of Snake.move() calls made (SpecSnake)
  thrown,          \* the error the last call raised, NoError when it returned
  lastOp,          \* the last call made and its argument
  returned,        \* what the last GameState call returned (Null: undefined)
  stored,          \* localStorage['snake_high_score'] (Null: no such key)
  wasPlayingBeforeHide,  \* Game._wasPlayingBeforeHide
  hidden,          \* document.hidden
  pauseCause,      \* history: what caused the pause in force ("none": not paused)
  storedMute,      \* localStorage['snake_muted'] (Null: no such key)
  getThrows,       \* localStorage.getItem throws
  setThrows,       \* localStorage.setItem throws
  cues,            \* the AudioManager.play(name) calls of the last _tick()
  tickAccum,       \* Game._tickAccum, in ms
  frame,           \* the _update call in progress: its deltaMs, its
                   \* tickInterval, the ticks it has run, whether its loop
                   \* has ticks left to run
  shakeTimeLeft,   \* Game._shakeTimeLeft, in ms
  shakeOffset,     \* Game._shakeOffset by its amplitude: x and y are random
                   \* numbers between -amp and amp, amp being
                   \* SHAKE_AMPLITUDE_PX * shakeOffset / SHAKE_DURATION_MS
                   \* (0: the offset is {x: 0, y: 0})
  lastTimestamp    \* Game._lastTimestamp (Null before the first frame)

snakeVars == <<gridSize, body, direction, directionQueue, pendingGrowth>>
foodVars  == <<position>>
visibilityVars == <<wasPlayingBeforeHide, hidden>>
storageVars == <<stored, storedMute, getThrows, setThrows>>
audioVars == <<cues>>
loopVars == <<tickAccum, frame>>
animVars == <<shakeTimeLeft, shakeOffset, lastTimestamp>>
vars == <<gridSize, body, direction, directionQueue, pendingGrowth, position,
          state, hasGame, occupiedCells, moves, thrown, lastOp, returned,
          stored, wasPlayingBeforeHide, hidden, pauseCause, storedMute,
          getThrows, setThrows, cues, tickAccum, frame, shakeTimeLeft,
          shakeOffset, lastTimestamp>>

NoStorage ==
  stored = Null /\ storedMute = Null /\ getThrows = FALSE /\ setThrows = FALSE

NoAudio == cues = <<>>

\* No _update call in progress
NoFrame == [active |-> FALSE, deltaMs |-> 0, interval |-> 0, ticks |-> 0]

\* The game loop state and the animation state the constructor of Game
\* leaves
NoLoop ==
  /\ tickAccum = 0
  /\ frame = NoFrame
  /\ shakeTimeLeft = 0
  /\ shakeOffset = 0
  /\ lastTimestamp = Null

\* ------------------------------------------------------------------------
\* utils.js
\* ------------------------------------------------------------------------
coordsEqual(a, b) == a.x = b.x /\ a.y = b.y

coordInList(coord, list) ==
  \E i \in 1..Len(list) : coordsEqual(list[i], coord)

\* randomInt never returning max
randomIntBelowMax(min, max) ==
  IF min > max THEN {[thrown |-> "RangeError", value |-> 0]}
  ELSE {[thrown |-> NoError, value |-> v] : v \in min..(max - 1)}

\* randomInt(min, max): a RangeError when min > max, else any integer of
\* [min, max] (Math.random() is any number of [0, 1))
randomInt(min, max) ==
  IF min > max THEN {[thrown |-> "RangeError", value |-> 0]}
  ELSE {[thrown |-> NoError, value |-> v] : v \in min..max}

\* clamp without the test of its bounds
clampUnchecked(value, min, max) ==
  [thrown |-> NoError,
   value |-> IF (IF value > min THEN value ELSE min) < max
             THEN (IF value > min THEN value ELSE min) ELSE max]

\* clamp(value, min, max): the error it raises and the value it returns
clamp(value, min, max) ==
  IF min > max THEN [thrown |-> "RangeError", value |-> 0]
  ELSE [thrown |-> NoError,
        value |-> IF (IF value > min THEN value ELSE min) < max
                  THEN (IF value > min THEN value ELSE min) ELSE max]

\* tickIntervalForLevel without the floor
tickIntervalForLevelNoFloor(level, baseTick, increment, minTick) ==
  baseTick - (level - 1) * increment

tickIntervalForLevel(level, baseTick, increment, minTick) ==
  LET raw == baseTick - (level - 1) * increment
  IN IF raw > minTick THEN raw ELSE minTick

\* A call of randomInt
RandomInt(min, max) ==
  \E r \in randomInt(min, max) :
    /\ returned' = r.value
    /\ thrown' = r.thrown
    /\ lastOp' = [op |-> "randomInt", arg |-> [min |-> min, max |-> max]]
    /\ UNCHANGED <<snakeVars, position, state, hasGame, occupiedCells, moves,
                   storageVars, audioVars, loopVars, animVars, visibilityVars>>

\* A call of clamp
Clamp(value, min, max) ==
  /\ returned' = clamp(value, min, max).value
  /\ thrown' = clamp(value, min, max).thrown
  /\ lastOp' = [op |-> "clamp",
                arg |-> [value |-> value, min |-> min, max |-> max]]
  /\ UNCHANGED <<snakeVars, position, state, hasGame, occupiedCells, moves,
                 storageVars, audioVars, loopVars, animVars, visibilityVars>>

\* A call of tickIntervalForLevel
TickIntervalForLevel(level, baseTick, increment, minTick) ==
  /\ returned' = tickIntervalForLevel(level, baseTick, increment, minTick)
  /\ thrown' = NoError
  /\ lastOp' = [op |-> "tickIntervalForLevel",
                arg |-> [level |-> level, baseTick |-> baseTick,
                         increment |-> increment, minTick |-> minTick]]
  /\ UNCHANGED <<snakeVars, position, state, hasGame, occupiedCells, moves,
                 storageVars, audioVars, loopVars, animVars, visibilityVars>>

\* ------------------------------------------------------------------------
\* snake.js
\* ------------------------------------------------------------------------
Floor2(n) == n \div 2

\* new Snake(gridSize): the body, head first
SnakeInitBody(n) ==
  << [x |-> Floor2(n),     y |-> Floor2(n)],
     [x |-> Floor2(n) - 1, y |-> Floor2(n)],
     [x |-> Floor2(n) - 2, y |-> Floor2(n)] >>

\* effectiveName looking at the active direction only
effectiveNameActiveOnly(queue, dir) == dir.name

\* The effective "current" direction of enqueueDirection
effectiveName(queue, dir) ==
  IF Len(queue) > 0 THEN queue[Len(queue)].name ELSE dir.name

\* enqueueResult without the queue cap
enqueueResultNoCap(queue, dir, newDir) ==
  IF newDir = Null THEN queue
  ELSE IF newDir.name = OPPOSITE_DIRECTIONS[effectiveName(queue, dir)] THEN queue
  ELSE IF newDir.name = effectiveName(queue, dir) THEN queue
  ELSE Append(queue, newDir)

\* enqueueResult without the reversal check
enqueueResultNoReversalCheck(queue, dir, newDir) ==
  IF newDir = Null THEN queue
  ELSE IF newDir.name = (IF Len(queue) > 0 THEN queue[Len(queue)].name ELSE dir.name)
    THEN queue
  ELSE IF Len(queue) >= MAX_DIRECTION_QUEUE THEN queue
  ELSE Append(queue, newDir)

\* The queue enqueueDirection(newDir) leaves
enqueueResult(queue, dir, newDir) ==
  IF newDir = Null THEN queue
  ELSE IF newDir.name = OPPOSITE_DIRECTIONS[effectiveName(queue, dir)] THEN queue
  ELSE IF newDir.name = effectiveName(queue, dir) THEN queue
  ELSE IF Len(queue) >= MAX_DIRECTION_QUEUE THEN queue
  ELSE Append(queue, newDir)

\* moveDirection taking the newest queued direction instead of the oldest
moveDirectionNewest(queue, dir) ==
  IF Len(queue) > 0 THEN queue[Len(queue)] ELSE dir

\* The direction move() applies
moveDirection(queue, dir) == IF Len(queue) > 0 THEN Head(queue) ELSE dir

moveQueue(queue) == IF Len(queue) > 0 THEN Tail(queue) ELSE queue

\* newHead adding the delta to the neck instead of the head
newHeadFromNeck(b, dir) == [x |-> b[2].x + dir.dx, y |-> b[2].y + dir.dy]

newHead(b, dir) == [x |-> b[1].x + dir.dx, y |-> b[1].y + dir.dy]

\* moveBody never clearing the growth: the tail is kept on every move
moveBodyNeverPops(b, dir, growth) == <<newHead(b, dir)>> \o b

\* moveBody popping the tail on every move
moveBodyAlwaysPops(b, dir, growth) ==
  <<newHead(b, dir)>> \o SubSeq(b, 1, Len(b) - 1)

\* The body move() leaves: the new head prepended, the tail popped unless
\* growth is pending
moveBody(b, dir, growth) ==
  IF growth THEN <<newHead(b, dir)>> \o b
  ELSE <<newHead(b, dir)>> \o SubSeq(b, 1, Len(b) - 1)

\* isDead looking at the walls only
isDeadWallsOnly(b, n) ==
  b[1].x < 0 \/ b[1].x >= n \/ b[1].y < 0 \/ b[1].y >= n

\* isOutOfBounds checking the lower edges only
isOutOfBoundsLowOnly(b, n) == b[1].x < 0 \/ b[1].y < 0

isOutOfBounds(b, n) ==
  b[1].x < 0 \/ b[1].x >= n \/ b[1].y < 0 \/ b[1].y >= n

isSelfColliding(b) == coordInList(b[1], Tail(b))

isDead(b, n) == isOutOfBounds(b, n) \/ isSelfColliding(b)

\* Snake.enqueueDirection(newDir)
EnqueueDirection(newDir) ==
  /\ directionQueue' = enqueueResult(directionQueue, direction, newDir)
  /\ thrown' = NoError
  /\ lastOp' = [op |-> "enqueueDirection", arg |-> newDir]
  /\ UNCHANGED <<gridSize, body, direction, pendingGrowth, position, state,
                 hasGame, occupiedCells, moves>>
  /\ UNCHANGED <<returned, storageVars, audioVars,
                 loopVars, animVars, visibilityVars>>

\* Snake.move()
Move ==
  /\ moves < MaxMoves
  /\ moves' = moves + 1
  /\ direction' = moveDirection(directionQueue, direction)
  /\ directionQueue' = moveQueue(directionQueue)
  /\ body' = moveBody(body, moveDirection(directionQueue, direction), pendingGrowth)
  /\ pendingGrowth' = FALSE
  /\ thrown' = NoError
  /\ lastOp' = [op |-> "move", arg |-> Null]
  /\ UNCHANGED <<gridSize, position, state, hasGame, occupiedCells>>
  /\ UNCHANGED <<returned, storageVars, audioVars,
                 loopVars, animVars, visibilityVars>>

\* Snake.grow()
Grow ==
  /\ pendingGrowth' = TRUE
  /\ thrown' = NoError
  /\ lastOp' = [op |-> "grow", arg |-> Null]
  /\ UNCHANGED <<gridSize, body, direction, directionQueue, position, state,
                 hasGame, occupiedCells, moves>>
  /\ UNCHANGED <<returned, storageVars, audioVars,
                 loopVars, animVars, visibilityVars>>

\* ------------------------------------------------------------------------
\* food.js
\* ------------------------------------------------------------------------

\* gridCells with the outer loop stopping after the first row
gridCellsFirstRowOnly(n) ==
  [i \in 1..n |-> [x |-> (i - 1) % n, y |-> 0]]

\* Every cell of the grid in the order of the two loops of spawn (y outer,
\* x inner)
gridCells(n) ==
  [i \in 1..(n * n) |-> [x |-> (i - 1) % n, y |-> (i - 1) \div n]]

\* isOccupied looking at the first occupied cell only
isOccupiedFirstOnly(cell, occupied) ==
  Len(occupied) > 0 /\ coordsEqual(occupied[1], cell)

isOccupied(cell, occupied) ==
  \E i \in 1..Len(occupied) : coordsEqual(occupied[i], cell)

freeCells(n, occupied) ==
  SelectSeq(gridCells(n), LAMBDA cell : ~isOccupied(cell, occupied))

\* The outcomes of spawn(occupied) on a food at position pos: the position
\* it leaves and the error it raises
spawn(n, occupied, pos) ==
  LET free == freeCells(n, occupied) IN
  IF Len(free) = 0
  THEN {[position |-> Null, thrown |-> NoError]}
  ELSE {IF r.thrown # NoError
          THEN [position |-> pos, thrown |-> r.thrown]
          ELSE [position |-> free[r.value + 1], thrown |-> NoError] :
        r \in randomInt(0, Len(free) - 1)}

isActive(pos) == pos # Null

isEatenBy(pos, coord) ==
  IF pos = Null THEN FALSE ELSE coordsEqual(pos, coord)

\* Food.spawn(occupiedCells) on the food of SpecFood
Spawn ==
  \E f \in spawn(gridSize, occupiedCells, position) :
    /\ position' = f.position
    /\ thrown' = f.thrown
    /\ lastOp' = [op |-> "spawn", arg |-> Null]
    /\ UNCHANGED <<gridSize, body, direction, directionQueue, pendingGrowth,
                   state, hasGame, occupiedCells, moves>>
    /\ UNCHANGED <<returned, storageVars, audioVars,
                   loopVars, animVars, visibilityVars>>

\* ------------------------------------------------------------------------
\* state.js
\* ------------------------------------------------------------------------

\* new GameState(initialHighScore)
NewGameState(initialHighScore) ==
  [screen |-> SCREENS.MENU, score |-> 0, highScore |-> initialHighScore,
   level |-> 1, isNewRecord |-> FALSE]

\* startGame keeping the new-record flag
startGameKeepsRecordFlag(st) ==
  [st EXCEPT !.score = 0, !.level = 1, !.screen = SCREENS.PLAYING]

startGame(st) ==
  [st EXCEPT !.score = 0, !.level = 1, !.isNewRecord = FALSE,
             !.screen = SCREENS.PLAYING]

\* pause without the screen check
pauseFromAnyScreen(st) == [st EXCEPT !.screen = SCREENS.PAUSED]

pause(st) ==
  IF st.screen = SCREENS.PLAYING THEN [st EXCEPT !.screen = SCREENS.PAUSED]
  ELSE st

resume(st) ==
  IF st.screen = SCREENS.PAUSED THEN [st EXCEPT !.screen = SCREENS.PLAYING]
  ELSE st

\* _updateHighScore storing the score of every game
updateHighScoreAlways(st) ==
  [st EXCEPT !.highScore = st.score, !.isNewRecord = TRUE]

updateHighScore(st) ==
  IF st.score > st.highScore
  THEN [st EXCEPT !.highScore = st.score, !.isNewRecord = TRUE]
  ELSE st

endGame(st) == [updateHighScore(st) EXCEPT !.screen = SCREENS.GAME_OVER]

\* win without the high-score update
winWithoutHighScore(st) == [st EXCEPT !.screen = SCREENS.WIN]

win(st) == [updateHighScore(st) EXCEPT !.screen = SCREENS.WIN]

\* returnToMenu clearing the score
returnToMenuClearsScore(st) == [st EXCEPT !.screen = SCREENS.MENU, !.score = 0]

returnToMenu(st) == [st EXCEPT !.screen = SCREENS.MENU]

Min(a, b) == IF a < b THEN a ELSE b

\* levelForScore without the cap at MAX_LEVEL
levelForScoreUncapped(sc) == (sc \div POINTS_PER_LEVEL) + 1

\* The level addScore computes from the new score
levelForScore(sc) == Min((sc \div POINTS_PER_LEVEL) + 1, MAX_LEVEL)

\* The GameState addScore() leaves
addScore(st) ==
  [st EXCEPT !.score = st.score + POINTS_PER_FOOD,
             !.level = levelForScore(st.score + POINTS_PER_FOOD)]

\* addScoreResult reporting a level-up whenever the score reaches a multiple
\* of POINTS_PER_LEVEL
addScoreResultByScore(st) ==
  [leveledUp |-> (st.score + POINTS_PER_FOOD) % POINTS_PER_LEVEL = 0,
   newLevel |-> addScore(st).level]

\* addScoreResult never reporting a level-up
addScoreResultNoLevelUp(st) ==
  [leveledUp |-> FALSE, newLevel |-> addScore(st).level]

\* What addScore() returns
addScoreResult(st) ==
  [leveledUp |-> addScore(st).level > st.level, newLevel |-> addScore(st).level]

\* A call of a GameState method that leaves the state result and returns
\* ret; lastOp keeps the screen it was made in
StateCall(name, result, ret) ==
  /\ state' = result
  /\ returned' = ret
  /\ thrown' = NoError
  /\ lastOp' = [op |-> name, arg |-> state.screen]
  /\ UNCHANGED <<snakeVars, position, hasGame, occupiedCells, moves,
                 storageVars, audioVars, loopVars, animVars, visibilityVars>>

StartGame == StateCall("startGame", startGame(state), Null)

Pause == StateCall("pause", pause(state), Null)

Resume == StateCall("resume", resume(state), Null)

EndGame == StateCall("endGame", endGame(state), Null)

Win == StateCall("win", win(state), Null)

ReturnToMenu == StateCall("returnToMenu", returnToMenu(state), Null)

AddScore ==
  /\ state.score < MaxScore
  /\ StateCall("addScore", addScore(state), addScoreResult(state))

\* ------------------------------------------------------------------------
\* storage.js
\* ------------------------------------------------------------------------

\* JavaScript numbers, as far as saveHighScore tells them apart: an integer
\* v; the fraction v + f/10 (v >= 0, f in 1..9); v * 10^21 (v in 1..9), the
\* magnitude from which String() writes the exponent form; NaN; and
\* +Infinity or -Infinity (v = 1 or -1)
IntNum(v) == [t |-> "int", v |-> v, f |-> 0]

FracNum(v, f) == [t |-> "frac", v |-> v, f |-> f]

BigNum(v) == [t |-> "big", v |-> v, f |-> 0]

NaN == [t |-> "nan", v |-> 0, f |-> 0]

Infinity(sign) == [t |-> "inf", v |-> sign, f |-> 0]

\* A value of localStorage: a string, held as the sequence of its characters
Item(chars) == [chars |-> chars]

DigitChars == <<"0", "1", "2", "3", "4", "5", "6", "7", "8", "9">>

IsDigit(c) == \E d \in 1..10 : DigitChars[d] = c

DigitValue(c) == (CHOOSE d \in 1..10 : DigitChars[d] = c) - 1

\* The decimal digits of a natural number
RECURSIVE DigitsOf(_)
DigitsOf(n) ==
  IF n < 10 THEN <<DigitChars[n + 1]>>
  ELSE Append(DigitsOf(n \div 10), DigitChars[(n % 10) + 1])

\* String(score): Number::toString in radix 10
String(x) ==
  IF x.t = "nan" THEN <<"N", "a", "N">>
  ELSE IF x.t = "inf"
    THEN (IF x.v < 0 THEN <<"-">> ELSE <<>>)
           \o <<"I", "n", "f", "i", "n", "i", "t", "y">>
  ELSE IF x.t = "big" THEN <<DigitChars[x.v + 1], "e", "+", "2", "1">>
  ELSE IF x.t = "frac" THEN DigitsOf(x.v) \o <<".", DigitChars[x.f + 1]>>
  ELSE IF x.v < 0 THEN <<"-">> \o DigitsOf(-x.v)
  ELSE DigitsOf(x.v)

\* The value of a string of digits
RECURSIVE ValueOfDigits(_)
ValueOfDigits(ds) ==
  IF Len(ds) = 0 THEN 0
  ELSE 10 * ValueOfDigits(SubSeq(ds, 1, Len(ds) - 1)) + DigitValue(ds[Len(ds)])

\* The string without its leading white space
RECURSIVE TrimStart(_)
TrimStart(str) ==
  IF Len(str) > 0 /\ str[1] = " " THEN TrimStart(Tail(str)) ELSE str

\* parseInt(raw, 10): leading white space skipped, an optional sign, then the
\* longest prefix of decimal digits; NaN when there is no digit
parseInt(raw) ==
  LET trimmed  == TrimStart(raw)
      signed   == Len(trimmed) > 0 /\ trimmed[1] \in {"-", "+"}
      negative == Len(trimmed) > 0 /\ trimmed[1] = "-"
      rest     == IF signed THEN Tail(trimmed) ELSE trimmed
      prefixes == {k \in 0..Len(rest) : \A j \in 1..k : IsDigit(rest[j])}
      k        == CHOOSE i \in prefixes : \A j \in prefixes : j <= i
  IN IF k = 0 THEN NaN
     ELSE IntNum((IF negative THEN -1 ELSE 1) * ValueOfDigits(SubSeq(rest, 1, k)))

\* Number.isFinite(x)
isFinite(x) == x.t \in {"int", "frac", "big"}

\* x < 0
isNegative(x) == (x.t = "int" /\ x.v < 0) \/ (x.t = "inf" /\ x.v < 0)

\* x > c for an integer c below 10^21
greaterThan(x, c) ==
  CASE x.t = "int"  -> x.v > c
    [] x.t = "frac" -> x.v >= c
    [] x.t = "big"  -> TRUE
    [] x.t = "inf"  -> x.v > 0
    [] x.t = "nan"  -> FALSE

\* localStorage.getItem(key) on a key holding item: the value it returns and
\* the error it raises
getItem(item) ==
  IF getThrows THEN [thrown |-> "SecurityError", value |-> Null]
  ELSE [thrown |-> NoError, value |-> item]

\* localStorage.setItem(key, value) on a key holding item: what the key holds
\* afterwards and the error raised
setItem(item, value) ==
  IF setThrows THEN [thrown |-> "QuotaExceededError", item |-> item]
  ELSE [thrown |-> NoError, item |-> value]

\* safeGet(key): null on any error
safeGet(item) ==
  IF getItem(item).thrown # NoError THEN Null ELSE getItem(item).value

\* safeSet without its try/catch
safeSetNoCatch(item, value) == setItem(item, value)

\* safeSet(key, value): errors are swallowed
safeSet(item, value) ==
  [thrown |-> NoError, item |-> setItem(item, value).item]

\* loadHighScore() with item under the high-score key
loadHighScore(item) ==
  LET raw == safeGet(item) IN
  IF raw = Null THEN 0
  ELSE LET parsed == parseInt(raw.chars)
       IN IF isFinite(parsed) /\ parsed.v >= 0 THEN parsed.v ELSE 0

\* saveHighScore(score) with item under the high-score key: what the key
\* holds afterwards and the error raised
saveHighScore(item, score) ==
  IF ~isFinite(score) \/ isNegative(score)
    THEN [thrown |-> NoError, item |-> item]
  ELSE IF greaterThan(score, loadHighScore(item))
    THEN safeSet(item, Item(String(score)))
  ELSE [thrown |-> NoError, item |-> item]

\* String(Boolean(muted))
BooleanString(muted) ==
  IF muted THEN <<"t", "r", "u", "e">> ELSE <<"f", "a", "l", "s", "e">>

\* loadMute() with item under the mute key
loadMute(item) == safeGet(item) = Item(<<"t", "r", "u", "e">>)

\* saveMute(muted) with item under the mute key
saveMute(item, muted) == safeSet(item, Item(BooleanString(muted)))

\* saveHighScore(score) called on its own, as the tests of storage.js do
SaveHighScore(score) ==
  /\ stored' = saveHighScore(stored, score).item
  /\ thrown' = saveHighScore(stored, score).thrown
  /\ lastOp' = [op |-> "saveHighScore", arg |-> score]
  /\ UNCHANGED <<snakeVars, position, state, hasGame, occupiedCells, moves,
                 returned, visibilityVars, storedMute, getThrows, setThrows,
                 audioVars, loopVars, animVars>>

\* loadHighScore() called on its own
LoadHighScore ==
  /\ returned' = loadHighScore(stored)
  /\ thrown' = NoError
  /\ lastOp' = [op |-> "loadHighScore", arg |-> Null]
  /\ UNCHANGED <<snakeVars, position, state, hasGame, occupiedCells, moves,
                 storageVars, audioVars, loopVars, animVars, visibilityVars>>

\* loadMute() called on its own
LoadMute ==
  /\ returned' = loadMute(storedMute)
  /\ thrown' = NoError
  /\ lastOp' = [op |-> "loadMute", arg |-> Null]
  /\ UNCHANGED <<snakeVars, position, state, hasGame, occupiedCells, moves,
                 storageVars, audioVars, loopVars, animVars, visibilityVars>>

\* saveMute(muted) called on its own
SaveMute(muted) ==
  /\ storedMute' = saveMute(storedMute, muted).item
  /\ thrown' = saveMute(storedMute, muted).thrown
  /\ lastOp' = [op |-> "saveMute", arg |-> muted]
  /\ UNCHANGED <<snakeVars, position, state, hasGame, occupiedCells, moves,
                 returned, stored, getThrows, setThrows, audioVars,
                 loopVars, animVars,
                 visibilityVars>>

\* ------------------------------------------------------------------------
\* game.js
\* ------------------------------------------------------------------------

\* Total shake time on death, in ms
SHAKE_DURATION_MS == 300

\* No call made yet
NoOp == [op |-> "none", arg |-> Null]

\* _startNewGame leaving the tick accumulator and the shake state as they are
StartNewGameKeepsLoop ==
  \E f \in spawn(GRID_SIZE, SnakeInitBody(GRID_SIZE), Null) :
    /\ gridSize' = GRID_SIZE
    /\ body' = SnakeInitBody(GRID_SIZE)
    /\ direction' = DIRECTIONS.RIGHT
    /\ directionQueue' = <<>>
    /\ pendingGrowth' = FALSE
    /\ UNCHANGED <<occupiedCells, moves, returned, storageVars, audioVars,
                   loopVars, animVars, visibilityVars>>
    /\ position' = f.position
    /\ thrown' = f.thrown
    /\ hasGame' = TRUE
    /\ state' = IF f.thrown = NoError THEN startGame(state) ELSE state

\* _startNewGame(): a new Snake and a new Food on GRID_SIZE, the food
\* spawned against the new body, then GameState.startGame()
StartNewGame ==
  \E f \in spawn(GRID_SIZE, SnakeInitBody(GRID_SIZE), Null) :
    /\ gridSize' = GRID_SIZE
    /\ body' = SnakeInitBody(GRID_SIZE)
    /\ direction' = DIRECTIONS.RIGHT
    /\ directionQueue' = <<>>
    /\ pendingGrowth' = FALSE
    /\ tickAccum' = 0
    /\ shakeTimeLeft' = 0
    /\ shakeOffset' = 0
    /\ UNCHANGED <<occupiedCells, moves, returned, storageVars, audioVars,
                   frame, lastTimestamp, visibilityVars>>
    /\ position' = f.position
    /\ thrown' = f.thrown
    /\ hasGame' = TRUE
    /\ state' = IF f.thrown = NoError THEN startGame(state) ELSE state

\* onDirection without the screen test
OnDirectionAnyScreen(dir) ==
  /\ directionQueue' =
       IF hasGame
       THEN enqueueResult(directionQueue, direction, dir)
       ELSE directionQueue
  /\ UNCHANGED <<gridSize, body, direction, pendingGrowth, position, state,
                 hasGame, occupiedCells, moves, thrown, returned,
                 storageVars, audioVars, loopVars, animVars, visibilityVars>>

\* The onDirection callback of _wireInput
OnDirection(dir) ==
  /\ directionQueue' =
       IF state.screen = SCREENS.PLAYING /\ hasGame
       THEN enqueueResult(directionQueue, direction, dir)
       ELSE directionQueue
  /\ UNCHANGED <<gridSize, body, direction, pendingGrowth, position, state,
                 hasGame, occupiedCells, moves, thrown, returned,
                 storageVars, audioVars, loopVars, animVars, visibilityVars>>

\* The onPause callback of _wireInput
OnPause ==
  /\ state' =
       IF state.screen = SCREENS.PLAYING THEN pause(state)
       ELSE IF state.screen = SCREENS.PAUSED THEN resume(state)
       ELSE IF state.screen = SCREENS.GAME_OVER \/ state.screen = SCREENS.WIN
       THEN returnToMenu(state)
       ELSE state
  /\ UNCHANGED <<snakeVars, position, hasGame, occupiedCells, moves, thrown,
                 returned, storageVars, audioVars,
                 loopVars, animVars, visibilityVars>>

\* onConfirm starting a new game on every screen
OnConfirmAnyScreen == StartNewGame

\* The onConfirm callback of _wireInput
OnConfirm ==
  IF state.screen \in {SCREENS.MENU, SCREENS.GAME_OVER, SCREENS.WIN}
  THEN StartNewGame
  ELSE /\ state' = IF state.screen = SCREENS.PAUSED THEN resume(state) ELSE state
       /\ UNCHANGED <<snakeVars, position, hasGame, occupiedCells, moves, thrown,
                      returned, storageVars, audioVars,
                      loopVars, animVars, visibilityVars>>

\* _shakeTimeLeft after _tick(): SHAKE_DURATION_MS when the snake died
shakeTimeLeftAfterTick ==
  IF /\ hasGame
     /\ isDead(moveBody(body, moveDirection(directionQueue, direction),
                        pendingGrowth), gridSize)
  THEN SHAKE_DURATION_MS
  ELSE shakeTimeLeft

\* The shake update at the end of _update in PLAYING, timeLeft being
\* _shakeTimeLeft after the loop: a running timer loses the delta of the frame
\* and the offset gets the amplitude of what is left, otherwise the offset is
\* {x: 0, y: 0}
shakeUpdate(timeLeft, deltaMs) ==
  IF timeLeft > 0
  THEN [timeLeft |-> timeLeft - deltaMs, offset |-> timeLeft - deltaMs]
  ELSE [timeLeft |-> timeLeft, offset |-> 0]

\* _tick(): one logical game step (its assignment of _shakeTimeLeft is
\* shakeTimeLeftAfterTick)
tick ==
  IF ~hasGame
  THEN /\ cues' = <<>>
       /\ UNCHANGED <<snakeVars, position, state, hasGame, occupiedCells,
                      thrown, storageVars>>
  ELSE
    LET dir    == moveDirection(directionQueue, direction)
        moved  == moveBody(body, dir, pendingGrowth)
    IN
    /\ direction' = dir
    /\ directionQueue' = moveQueue(directionQueue)
    /\ body' = moved
    /\ UNCHANGED <<gridSize, hasGame, storedMute, getThrows, setThrows>>
    /\ IF isDead(moved, gridSize)
       THEN /\ pendingGrowth' = FALSE
            /\ cues' = <<"die">>
            /\ state' = endGame(state)
            /\ stored' =
                 saveHighScore(stored, IntNum(endGame(state).highScore)).item
            /\ thrown' =
                 saveHighScore(stored, IntNum(endGame(state).highScore)).thrown
            /\ UNCHANGED <<position, occupiedCells>>
       ELSE IF isEatenBy(position, moved[1])
       THEN \E f \in spawn(gridSize, moved, position) :
              /\ pendingGrowth' = TRUE
              /\ cues' = IF addScoreResult(state).leveledUp
                         THEN <<"levelup">> ELSE <<"eat">>
              /\ UNCHANGED occupiedCells
              /\ position' = f.position
              /\ state' = IF f.thrown # NoError THEN addScore(state)
                          ELSE IF ~isActive(f.position) THEN win(addScore(state))
                          ELSE addScore(state)
              /\ stored' = IF f.thrown = NoError /\ ~isActive(f.position)
                           THEN saveHighScore(stored,
                                  IntNum(win(addScore(state)).highScore)).item
                           ELSE stored
              /\ thrown' = IF f.thrown = NoError /\ ~isActive(f.position)
                           THEN saveHighScore(stored,
                                  IntNum(win(addScore(state)).highScore)).thrown
                           ELSE f.thrown
       ELSE /\ pendingGrowth' = FALSE
            /\ cues' = <<>>
            /\ UNCHANGED <<position, state, occupiedCells, thrown, stored>>

\* visibilityResult setting the flag on a hidden tab without pausing
visibilityResultFlagOnly(st, flag, isHidden) ==
  IF isHidden
  THEN IF st.screen = SCREENS.PLAYING
       THEN [state |-> st, flag |-> TRUE]
       ELSE [state |-> st, flag |-> flag]
  ELSE IF flag
       THEN [state |-> resume(st), flag |-> FALSE]
       ELSE [state |-> st, flag |-> flag]

\* What the visibilitychange listener of _wireVisibility leaves of the
\* GameState and of _wasPlayingBeforeHide, isHidden being document.hidden
visibilityResult(st, flag, isHidden) ==
  IF isHidden
  THEN IF st.screen = SCREENS.PLAYING
       THEN [state |-> pause(st), flag |-> TRUE]
       ELSE [state |-> st, flag |-> flag]
  ELSE IF flag
       THEN [state |-> resume(st), flag |-> FALSE]
       ELSE [state |-> st, flag |-> flag]

\* A visibilitychange event: document.hidden has changed and the listener
\* runs
VisibilityChange ==
  /\ hidden' = ~hidden
  /\ state' = visibilityResult(state, wasPlayingBeforeHide, ~hidden).state
  /\ wasPlayingBeforeHide' =
       visibilityResult(state, wasPlayingBeforeHide, ~hidden).flag
  /\ UNCHANGED <<snakeVars, position, hasGame, occupiedCells, moves, thrown,
                 returned, storageVars, audioVars, loopVars, animVars>>

\* The tickInterval _update computes before its loop
tickIntervalOf(st) ==
  tickIntervalForLevel(st.level, BASE_TICK_MS, SPEED_INCREMENT_MS, MIN_TICK_MS)

\* _update without the test of the screen
UpdateAnyScreen(deltaMs) ==
  /\ ~frame.active
  /\ tickAccum' = tickAccum + deltaMs
  /\ frame' = [active |-> tickAccum + deltaMs >= tickIntervalOf(state),
               deltaMs |-> deltaMs,
               interval |-> tickIntervalOf(state), ticks |-> 0]
  /\ UNCHANGED <<shakeTimeLeft, shakeOffset>>
  /\ UNCHANGED <<snakeVars, position, state, hasGame, occupiedCells, moves,
                 thrown, returned, storageVars, audioVars, visibilityVars>>

\* _update(deltaMs) up to the first test of its loop: outside PLAYING it
\* returns at once; in PLAYING it adds the delta to _tickAccum and computes
\* tickInterval, and the loop has a tick to run if _tickAccum has reached
\* it; if it has not, _update goes on to its shake update and returns
Update(deltaMs) ==
  /\ ~frame.active
  /\ IF state.screen # SCREENS.PLAYING
     THEN /\ frame' = NoFrame
          /\ UNCHANGED <<tickAccum, shakeTimeLeft, shakeOffset>>
     ELSE /\ tickAccum' = tickAccum + deltaMs
          /\ frame' = [active |-> tickAccum + deltaMs >= tickIntervalOf(state),
                       deltaMs |-> deltaMs,
                       interval |-> tickIntervalOf(state), ticks |-> 0]
          /\ IF tickAccum + deltaMs >= tickIntervalOf(state)
             THEN UNCHANGED <<shakeTimeLeft, shakeOffset>>
             ELSE /\ shakeTimeLeft' =
                       shakeUpdate(shakeTimeLeft, deltaMs).timeLeft
                  /\ shakeOffset' = shakeUpdate(shakeTimeLeft, deltaMs).offset
  /\ UNCHANGED <<snakeVars, position, state, hasGame, occupiedCells, moves,
                 thrown, returned, storageVars, audioVars, visibilityVars>>

\* One pass of the loop of _update without its break
UpdateTickNoBreak(maxTicks) ==
  /\ frame.active
  /\ moves < maxTicks
  /\ moves' = moves + 1
  /\ tickAccum' = tickAccum - frame.interval
  /\ tick
  /\ frame' = [active |-> tickAccum - frame.interval >= frame.interval,
               deltaMs |-> frame.deltaMs,
               interval |-> frame.interval, ticks |-> frame.ticks + 1]
  /\ IF tickAccum - frame.interval >= frame.interval
     THEN /\ shakeTimeLeft' = shakeTimeLeftAfterTick
          /\ UNCHANGED shakeOffset
     ELSE /\ shakeTimeLeft' =
               shakeUpdate(shakeTimeLeftAfterTick, frame.deltaMs).timeLeft
          /\ shakeOffset' =
               shakeUpdate(shakeTimeLeftAfterTick, frame.deltaMs).offset
  /\ UNCHANGED <<returned, lastTimestamp, visibilityVars>>

\* One pass of the loop of _update: the interval is subtracted, _tick() runs,
\* and the loop goes on if the screen is still PLAYING and _tickAccum has
\* still reached the tickInterval computed before the loop; when the loop
\* ends, _update goes on to its shake update and returns
UpdateTick(maxTicks) ==
  /\ frame.active
  /\ moves < maxTicks
  /\ moves' = moves + 1
  /\ tickAccum' = tickAccum - frame.interval
  /\ tick
  /\ frame' = [active |-> /\ state'.screen = SCREENS.PLAYING
                          /\ tickAccum - frame.interval >= frame.interval,
               deltaMs |-> frame.deltaMs,
               interval |-> frame.interval, ticks |-> frame.ticks + 1]
  /\ IF frame'.active
     THEN /\ shakeTimeLeft' = shakeTimeLeftAfterTick
          /\ UNCHANGED shakeOffset
     ELSE /\ shakeTimeLeft' =
               shakeUpdate(shakeTimeLeftAfterTick, frame.deltaMs).timeLeft
          /\ shakeOffset' =
               shakeUpdate(shakeTimeLeftAfterTick, frame.deltaMs).offset
  /\ UNCHANGED <<returned, lastTimestamp, visibilityVars>>

\* A timestamp of requestAnimationFrame, in ms
At(ms) == [ms |-> ms]

\* The deltaMs of _frame without its cap
frameDeltaUncapped(last, timestamp) ==
  IF last = Null THEN 0 ELSE timestamp - last.ms

\* The deltaMs _frame computes from _lastTimestamp and its timestamp: on the
\* first frame _lastTimestamp is the timestamp itself, and the difference is
\* capped at 200 ms
frameDelta(last, timestamp) ==
  LET previous == IF last = Null THEN timestamp ELSE last.ms
  IN  IF timestamp - previous < 200 THEN timestamp - previous ELSE 200

\* _frame(timestamp) up to the first test of the loop of _update
Frame(timestamp) ==
  /\ Update(frameDelta(lastTimestamp, timestamp))
  /\ lastTimestamp' = At(timestamp)

\* A tick of the loop of _update, which calls _tick() only while the screen
\* is PLAYING
Tick ==
  /\ state.screen = SCREENS.PLAYING
  /\ tick
  /\ shakeTimeLeft' = shakeTimeLeftAfterTick
  /\ UNCHANGED <<moves, returned, visibilityVars, loopVars, shakeOffset,
                 lastTimestamp>>

\* The Game after its constructor, with no high score in storage
\* (loadHighScore() returns 0)
InitGame ==
  /\ gridSize = GRID_SIZE
  /\ body = <<>>
  /\ direction = DIRECTIONS.RIGHT
  /\ directionQueue = <<>>
  /\ pendingGrowth = FALSE
  /\ position = Null
  /\ hasGame = FALSE
  /\ occupiedCells = <<>>
  /\ moves = 0
  /\ thrown = NoError
  /\ lastOp = NoOp
  /\ returned = Null
  /\ NoStorage
  /\ NoAudio
  /\ NoLoop
  /\ wasPlayingBeforeHide = FALSE
  /\ hidden = FALSE
  /\ pauseCause = "none"
  /\ state = NewGameState(loadHighScore(stored))

\* The inputs and the ticks of one game, from the confirm on the menu that
\* starts it to its GAME_OVER or WIN screen: confirm and pause inputs in the
\* screens before the end of the game, direction inputs and ticks
NextPlay ==
  \/ (state.screen \in {SCREENS.MENU, SCREENS.PLAYING, SCREENS.PAUSED}
        /\ OnConfirm /\ UNCHANGED <<lastOp, pauseCause>>)
  \/ (state.screen \in {SCREENS.MENU, SCREENS.PLAYING, SCREENS.PAUSED}
        /\ OnPause /\ UNCHANGED <<lastOp, pauseCause>>)
  \/ (\E dir \in Dirs : OnDirection(dir) /\ UNCHANGED <<lastOp, pauseCause>>)
  \/ (Tick /\ UNCHANGED <<lastOp, pauseCause>>)

SpecPlay == InitGame /\ [][NextPlay]_vars

\* ------------------------------------------------------------------------
\* Specifications
\* ------------------------------------------------------------------------

\* The variables a specification does not use
NoSnake ==
  /\ body = <<>>
  /\ direction = DIRECTIONS.RIGHT
  /\ directionQueue = <<>>
  /\ pendingGrowth = FALSE
  /\ moves = 0

NoFood == position = Null /\ occupiedCells = <<>>

NoState == state = NewGameState(0) /\ hasGame = FALSE /\ returned = Null

NoVisibility ==
  wasPlayingBeforeHide = FALSE /\ hidden = FALSE /\ pauseCause = "none"

\* SpecSnake: one Snake object under any sequence of calls
SnakeGrids == 3..MaxSnakeGrid

SnakeInputs == Dirs \cup {Null}

InitSnake ==
  /\ gridSize \in SnakeGrids
  /\ body = SnakeInitBody(gridSize)
  /\ direction = DIRECTIONS.RIGHT
  /\ directionQueue = <<>>
  /\ pendingGrowth = FALSE
  /\ moves = 0
  /\ thrown = NoError
  /\ lastOp = NoOp
  /\ NoFood
  /\ NoState
  /\ NoStorage
  /\ NoAudio
  /\ NoLoop
  /\ NoVisibility

NextSnake ==
  \/ (\E newDir \in SnakeInputs : EnqueueDirection(newDir) /\ UNCHANGED pauseCause)
  \/ (Move /\ UNCHANGED pauseCause)
  \/ (Grow /\ UNCHANGED pauseCause)

SpecSnake == InitSnake /\ [][NextSnake]_vars

\* SpecFrames: the Game driven by frames: _update(deltaMs) calls, with
\* deltas below, at and above the 200 ms _frame clamps to (the tests call
\* _update with larger ones), and the input callbacks between the frames (a
\* callback never runs inside an _update call)
FrameDeltas == {0, 100, 200, 400}

InitFrames == InitGame

NextFrames ==
  \/ (~frame.active /\ OnConfirm
        /\ lastOp' = [op |-> "confirm", arg |-> Null] /\ UNCHANGED pauseCause)
  \/ (~frame.active /\ OnPause
        /\ lastOp' = [op |-> "pause", arg |-> Null] /\ UNCHANGED pauseCause)
  \/ (\E dir \in Dirs : ~frame.active /\ OnDirection(dir)
        /\ lastOp' = [op |-> "direction", arg |-> dir]
        /\ UNCHANGED pauseCause)
  \/ (\E deltaMs \in FrameDeltas : Update(deltaMs)
        /\ lastOp' = [op |-> "update", arg |-> deltaMs]
        /\ UNCHANGED <<lastTimestamp, pauseCause>>)
  \/ (UpdateTick(MaxFrameTicks)
        /\ lastOp' = [op |-> "tick", arg |-> Null] /\ UNCHANGED pauseCause)

SpecFrames == InitFrames /\ [][NextFrames]_vars

\* SpecLevelUpFrames: one game played without a pause through frames whose
\* deltas are at or just below the clamp of _frame, long enough for the
\* first level-up (five foods)
LevelUpFrameDeltas == {199, 200}

NextLevelUpFrames ==
  \/ (~frame.active /\ state.screen = SCREENS.MENU /\ OnConfirm
        /\ lastOp' = [op |-> "confirm", arg |-> Null] /\ UNCHANGED pauseCause)
  \/ (\E dir \in Dirs : ~frame.active /\ OnDirection(dir)
        /\ lastOp' = [op |-> "direction", arg |-> dir]
        /\ UNCHANGED pauseCause)
  \/ (\E deltaMs \in LevelUpFrameDeltas : Update(deltaMs)
        /\ lastOp' = [op |-> "update", arg |-> deltaMs]
        /\ UNCHANGED <<lastTimestamp, pauseCause>>)
  \/ (UpdateTick(MaxLevelUpTicks)
        /\ lastOp' = [op |-> "tick", arg |-> Null] /\ UNCHANGED pauseCause)

SpecLevelUpFrames == InitGame /\ [][NextLevelUpFrames]_vars

\* SpecClock: the Game driven by the frames of requestAnimationFrame, whose
\* timestamps never decrease: frames in quick succession, at the cap of
\* _frame and far beyond it (a throttled or hidden tab), with confirm and
\* pause inputs and visibility changes between the frames
FirstTimestamps == {0, 300}

FrameGaps == {0, 100, 200, 300, 1000}

FrameTimestamps ==
  IF lastTimestamp = Null THEN FirstTimestamps
  ELSE {t \in {lastTimestamp.ms + gap : gap \in FrameGaps} : t <= MaxTimestamp}

NextClock ==
  \/ (~frame.active /\ OnConfirm
        /\ lastOp' = [op |-> "confirm", arg |-> Null]
        /\ UNCHANGED pauseCause)
  \/ (~frame.active /\ OnPause
        /\ lastOp' = [op |-> "pause", arg |-> Null]
        /\ UNCHANGED pauseCause)
  \/ (~frame.active /\ VisibilityChange
        /\ lastOp' = [op |-> "visibilitychange", arg |-> Null]
        /\ UNCHANGED pauseCause)
  \/ (\E timestamp \in FrameTimestamps : Frame(timestamp)
        /\ lastOp' = [op |-> "frame", arg |-> timestamp]
        /\ UNCHANGED pauseCause)
  \/ (UpdateTick(MaxClockTicks)
        /\ lastOp' = [op |-> "tick", arg |-> Null]
        /\ UNCHANGED pauseCause)

SpecClock == InitGame /\ [][NextClock]_vars

\* SpecLoop: the game loop over all the levels of one game. The 4x4 grid of
\* the other specifications ends a game at level 3, so here _tick() is what
\* the loop sees of it, whatever the snake and the food: a tick leaves the
\* GameState as it is (a move), calls addScore (a food eaten), addScore and
\* win (the last food eaten), or endGame (a death)
TickOutcomes == {"move", "eat", "win", "die"}

stateAfterTick(st, outcome) ==
  CASE outcome = "move" -> st
    [] outcome = "eat" -> addScore(st)
    [] outcome = "win" -> win(addScore(st))
    [] outcome = "die" -> endGame(st)

\* One pass of the loop of _update around a tick of the given outcome
UpdateTickOf(outcome) ==
  /\ frame.active
  /\ outcome \in {"eat", "win"} => state.score < MaxLoopScore
  /\ tickAccum' = tickAccum - frame.interval
  /\ state' = stateAfterTick(state, outcome)
  /\ frame' = [active |-> /\ state'.screen = SCREENS.PLAYING
                          /\ tickAccum - frame.interval >= frame.interval,
               deltaMs |-> frame.deltaMs,
               interval |-> frame.interval, ticks |-> frame.ticks + 1]
  /\ LET timeLeft == IF outcome = "die" THEN SHAKE_DURATION_MS
                     ELSE shakeTimeLeft
     IN  IF frame'.active
         THEN /\ shakeTimeLeft' = timeLeft
              /\ UNCHANGED shakeOffset
         ELSE /\ shakeTimeLeft' = shakeUpdate(timeLeft, frame.deltaMs).timeLeft
              /\ shakeOffset' = shakeUpdate(timeLeft, frame.deltaMs).offset
  /\ cues' = CASE outcome = "move" -> <<>>
                [] outcome = "die" -> <<"die">>
                [] OTHER -> IF addScoreResult(state).leveledUp
                            THEN <<"levelup">> ELSE <<"eat">>
  /\ stored' = IF outcome \in {"win", "die"}
               THEN saveHighScore(stored, IntNum(state'.highScore)).item
               ELSE stored
  /\ thrown' = IF outcome \in {"win", "die"}
               THEN saveHighScore(stored, IntNum(state'.highScore)).thrown
               ELSE NoError
  /\ UNCHANGED <<snakeVars, position, hasGame, occupiedCells, moves,
                 returned, storedMute, getThrows, setThrows, lastTimestamp,
                 visibilityVars>>

LoopGaps == {100, 200, 1000}

LoopTimestamps ==
  IF lastTimestamp = Null THEN {0}
  ELSE {t \in {lastTimestamp.ms + gap : gap \in LoopGaps} :
          t <= MaxLoopTimestamp}

NextLoop ==
  \/ (~frame.active /\ state.screen = SCREENS.MENU /\ OnConfirm
        /\ lastOp' = [op |-> "confirm", arg |-> Null] /\ UNCHANGED pauseCause)
  \/ (\E timestamp \in LoopTimestamps : Frame(timestamp)
        /\ lastOp' = [op |-> "frame", arg |-> timestamp]
        /\ UNCHANGED pauseCause)
  \/ (\E outcome \in TickOutcomes : UpdateTickOf(outcome)
        /\ lastOp' = [op |-> "tick", arg |-> outcome]
        /\ UNCHANGED pauseCause)

SpecLoop == InitGame /\ [][NextLoop]_vars

\* SpecUtils: the functions of utils.js called with any arguments
UtilArgs == (0 - MaxUtilArg)..MaxUtilArg

UtilLevels == 1..MaxUtilLevel

TickBases == {MIN_TICK_MS, 100, BASE_TICK_MS}

TickIncrements == {0, SPEED_INCREMENT_MS, 50}

TickFloors == {MIN_TICK_MS, 100, 250}

InitUtils ==
  /\ gridSize = GRID_SIZE
  /\ thrown = NoError
  /\ lastOp = NoOp
  /\ NoSnake
  /\ NoFood
  /\ NoState
  /\ NoStorage
  /\ NoAudio
  /\ NoLoop
  /\ NoVisibility

NextUtils ==
  \/ (\E min \in UtilArgs, max \in UtilArgs :
        RandomInt(min, max) /\ UNCHANGED pauseCause)
  \/ (\E value \in UtilArgs, min \in UtilArgs, max \in UtilArgs :
        Clamp(value, min, max) /\ UNCHANGED pauseCause)
  \/ (\E level \in UtilLevels, baseTick \in TickBases,
         increment \in TickIncrements, minTick \in TickFloors :
        TickIntervalForLevel(level, baseTick, increment, minTick)
          /\ UNCHANGED pauseCause)

SpecUtils == InitUtils /\ [][NextUtils]_vars

\* SpecRun: a new snake that is moved again and again with no direction
\* input (grow() may be called between the moves); the caller keeps calling
\* move(), so a move that stays possible is eventually made
RunMove == Move /\ UNCHANGED pauseCause

NextRun ==
  \/ RunMove
  \/ (Grow /\ UNCHANGED pauseCause)

SpecRun == InitSnake /\ [][NextRun]_vars /\ WF_vars(RunMove)

\* SpecFood: one Food object, spawn called on any occupied-cell list
FoodGrids == 0..MaxFoodGrid

\* The cells of the grid and one cell outside it on either side (a snake
\* that left the grid has such a segment)
CellsAround(n) ==
  {[x |-> cx, y |-> cy] : cx \in 0..(n - 1), cy \in 0..(n - 1)}
    \cup {[x |-> n, y |-> 0], [x |-> -1, y |-> 0]}

RECURSIVE SeqsUpTo(_, _)
SeqsUpTo(S, k) ==
  IF k = 0 THEN {<<>>}
  ELSE SeqsUpTo(S, k - 1) \cup
       {Append(q, c) : q \in {r \in SeqsUpTo(S, k - 1) : Len(r) = k - 1}, c \in S}

InitFood ==
  /\ gridSize \in FoodGrids
  /\ occupiedCells \in SeqsUpTo(CellsAround(gridSize), MaxOccupied)
  /\ position = Null
  /\ thrown = NoError
  /\ lastOp = NoOp
  /\ NoSnake
  /\ NoState
  /\ NoStorage
  /\ NoAudio
  /\ NoLoop
  /\ NoVisibility

NextFood == Spawn /\ UNCHANGED pauseCause

SpecFood == InitFood /\ [][NextFood]_vars

\* SpecState: one GameState object under any sequence of calls
InitialHighScores == {0, MaxInitialHighScore}

InitState ==
  /\ state \in {NewGameState(h) : h \in InitialHighScores}
  /\ hasGame = FALSE
  /\ gridSize = GRID_SIZE
  /\ thrown = NoError
  /\ lastOp = NoOp
  /\ returned = Null
  /\ NoSnake
  /\ NoFood
  /\ NoStorage
  /\ NoAudio
  /\ NoLoop
  /\ NoVisibility

NextState ==
  \/ (StartGame /\ UNCHANGED pauseCause)
  \/ (Pause /\ UNCHANGED pauseCause)
  \/ (Resume /\ UNCHANGED pauseCause)
  \/ (EndGame /\ UNCHANGED pauseCause)
  \/ (Win /\ UNCHANGED pauseCause)
  \/ (ReturnToMenu /\ UNCHANGED pauseCause)
  \/ (AddScore /\ UNCHANGED pauseCause)

SpecState == InitState /\ [][NextState]_vars

\* A tick of the loop of _update, one of at most maxTicks
CountedTick(maxTicks) ==
  /\ moves < maxTicks
  /\ moves' = moves + 1
  /\ state.screen = SCREENS.PLAYING
  /\ tick
  /\ shakeTimeLeft' = shakeTimeLeftAfterTick
  /\ UNCHANGED <<returned, wasPlayingBeforeHide, hidden, loopVars,
                 shakeOffset, lastTimestamp>>

\* The cause of the pause in force after a step of the Game: none when the
\* screen is not PAUSED, the cause of this step when it paused the game
PauseCauseAfter(cause) ==
  pauseCause' = IF state'.screen # SCREENS.PAUSED THEN "none"
                ELSE IF state.screen # SCREENS.PAUSED THEN cause
                ELSE pauseCause

\* SpecStorage: the Game on a localStorage that holds any of StoredItems
\* when the page loads, confirm inputs and ticks (games run straight into the
\* right wall, eating the food when it lies on the way), and saveHighScore
\* called on its own with any of Scores
StoredItems ==
  {Null, Item(<<"0">>), Item(<<"2", "0">>), Item(<<"5", "0", "0">>),
   Item(<<"-", "5", "0">>), Item(<<"n", "o">>), Item(<<" ", "1", "2", "x">>)}

Scores ==
  {IntNum(v) : v \in {-10, 0, 10, 20, 500}}
    \cup {FracNum(10, 5), BigNum(1), NaN, Infinity(1), Infinity(-1)}

InitStorage ==
  /\ stored \in StoredItems
  /\ storedMute = Null
  /\ getThrows = FALSE
  /\ setThrows = FALSE
  /\ NoAudio
  /\ NoLoop
  /\ state = NewGameState(loadHighScore(stored))
  /\ gridSize = GRID_SIZE
  /\ hasGame = FALSE
  /\ thrown = NoError
  /\ lastOp = NoOp
  /\ returned = Null
  /\ NoSnake
  /\ NoFood
  /\ NoVisibility

NextStorage ==
  \/ (OnConfirm /\ lastOp' = [op |-> "confirm", arg |-> Null]
        /\ UNCHANGED pauseCause)
  \/ (CountedTick(MaxStorageTicks) /\ lastOp' = [op |-> "tick", arg |-> Null]
        /\ UNCHANGED pauseCause)
  \/ (\E score \in Scores : SaveHighScore(score) /\ UNCHANGED pauseCause)

SpecStorage == InitStorage /\ [][NextStorage]_vars

\* SpecFaultyStorage: the Game and the functions of storage.js on a
\* localStorage whose getItem, setItem or both may throw (private mode,
\* quota exceeded)
FaultyStoredItems == {Null, Item(<<"2", "0">>), Item(<<"5", "0", "0">>)}

StoredMutes == {Null, Item(<<"t", "r", "u", "e">>), Item(<<"1">>)}

FaultyScores == {IntNum(10), IntNum(500), NaN}

InitFaultyStorage ==
  /\ stored \in FaultyStoredItems
  /\ storedMute \in StoredMutes
  /\ getThrows \in BOOLEAN
  /\ setThrows \in BOOLEAN
  /\ NoAudio
  /\ NoLoop
  /\ state = NewGameState(loadHighScore(stored))
  /\ gridSize = GRID_SIZE
  /\ hasGame = FALSE
  /\ thrown = NoError
  /\ lastOp = NoOp
  /\ returned = Null
  /\ NoSnake
  /\ NoFood
  /\ NoVisibility

NextFaultyStorage ==
  \/ (OnConfirm /\ lastOp' = [op |-> "confirm", arg |-> Null]
        /\ UNCHANGED pauseCause)
  \/ (CountedTick(MaxFaultyTicks) /\ lastOp' = [op |-> "tick", arg |-> Null]
        /\ UNCHANGED pauseCause)
  \/ (\E score \in FaultyScores : SaveHighScore(score) /\ UNCHANGED pauseCause)
  \/ (LoadHighScore /\ UNCHANGED pauseCause)
  \/ (LoadMute /\ UNCHANGED pauseCause)
  \/ (\E muted \in BOOLEAN : SaveMute(muted) /\ UNCHANGED pauseCause)

SpecFaultyStorage == InitFaultyStorage /\ [][NextFaultyStorage]_vars

\* SpecSession: the Game under confirm, pause and direction inputs, ticks
\* and visibility changes, over several games
InitSession ==
  /\ hidden \in BOOLEAN
  /\ wasPlayingBeforeHide = FALSE
  /\ pauseCause = "none"
  /\ NoStorage
  /\ NoAudio
  /\ NoLoop
  /\ state = NewGameState(loadHighScore(stored))
  /\ gridSize = GRID_SIZE
  /\ hasGame = FALSE
  /\ thrown = NoError
  /\ lastOp = NoOp
  /\ returned = Null
  /\ NoSnake
  /\ NoFood

NextSession ==
  \/ (OnConfirm /\ lastOp' = [op |-> "confirm", arg |-> Null]
        /\ PauseCauseAfter("user"))
  \/ (OnPause /\ lastOp' = [op |-> "pause", arg |-> Null]
        /\ PauseCauseAfter("user"))
  \/ (\E dir \in Dirs : OnDirection(dir)
        /\ lastOp' = [op |-> "direction", arg |-> dir]
        /\ PauseCauseAfter("user"))
  \/ (CountedTick(MaxSessionTicks) /\ lastOp' = [op |-> "tick", arg |-> Null]
        /\ PauseCauseAfter("user"))
  \/ (VisibilityChange /\ lastOp' = [op |-> "visibilitychange", arg |-> Null]
        /\ PauseCauseAfter("hidden"))

SpecSession == InitSession /\ [][NextSession]_vars

\* ------------------------------------------------------------------------
\* Properties
\* ------------------------------------------------------------------------

\* The opposite of a direction name, written out
OppositeName(n) ==
  CASE n = "UP" -> "DOWN" [] n = "DOWN" -> "UP"
    [] n = "LEFT" -> "RIGHT" [] n = "RIGHT" -> "LEFT"

\* The effective direction: the last queued direction if the queue is not
\* empty, otherwise the active direction
EffectiveBefore ==
  IF directionQueue # <<>> THEN directionQueue[Len(directionQueue)].name
  ELSE direction.name

\* C1: enqueueDirection(d) with d the opposite of the effective direction
\* leaves the pending queue, the active direction and the body unchanged and
\* raises no error, whatever the fill state of the queue.
C1_ReversalRejected ==
  [][ ( /\ lastOp'.op = "enqueueDirection"
        /\ lastOp'.arg # Null
        /\ lastOp'.arg.name = OppositeName(EffectiveBefore) )
      => ( /\ directionQueue' = directionQueue
           /\ direction' = direction
           /\ body' = body
           /\ thrown' = NoError ) ]_vars

\* C1 witness: a reversal of the last queued direction was just requested on
\* a full queue, after the snake has moved.
C1_Witness ==
  /\ lastOp.op = "enqueueDirection"
  /\ lastOp.arg # Null
  /\ Len(directionQueue) = MAX_DIRECTION_QUEUE
  /\ lastOp.arg.name = OppositeName(directionQueue[Len(directionQueue)].name)
  /\ lastOp.arg.name # OppositeName(direction.name)
  /\ moves > 0

\* C2: the direction a move applies is never the opposite of the direction
\* the previous move applied (the active direction before the move), and the
\* new head never lands on the neck the snake had before the move.
C2_NoReversalAcrossMoves ==
  [][ lastOp'.op = "move"
      => ( /\ direction'.name # OppositeName(direction.name)
           /\ ~(body'[1].x = body[2].x /\ body'[1].y = body[2].y) ) ]_vars

\* C2 witness: two moves in a row consumed two queued turns, and a turn was
\* queued after the first of them.
C2_Witness ==
  /\ lastOp.op = "move"
  /\ moves >= 2
  /\ direction.name = "LEFT"
  /\ Len(directionQueue) = 1

\* A cell of the n x n grid that no entry of the list equals
IsFreeCell(c, n, list) ==
  /\ c # Null
  /\ c.x \in 0..(n - 1)
  /\ c.y \in 0..(n - 1)
  /\ \A i \in 1..Len(list) : ~(list[i].x = c.x /\ list[i].y = c.y)

SomeCellFree(n, list) ==
  \E cx \in 0..(n - 1), cy \in 0..(n - 1) :
    \A i \in 1..Len(list) : ~(list[i].x = cx /\ list[i].y = cy)

\* C6: spawn leaves the food on an in-grid cell that is not in the occupied
\* list whenever a grid cell is free, leaves it inactive (position null) when
\* every grid cell is occupied, and never raises.
C6_SpawnOnFreeCell ==
  lastOp.op = "spawn"
  => /\ thrown = NoError
     /\ IF SomeCellFree(gridSize, occupiedCells)
        THEN IsFreeCell(position, gridSize, occupiedCells)
        ELSE position = Null

\* C6 witness: spawn found the only free cell of a 2 x 2 grid whose occupied
\* list also names a cell outside the grid.
C6_Witness ==
  /\ lastOp.op = "spawn"
  /\ gridSize = 2
  /\ Len(occupiedCells) = 4
  /\ \E i \in 1..4 : occupiedCells[i].x = 2
  /\ position = [x |-> 1, y |-> 1]

\* A second case of C6: spawn on a full 2 x 2 grid left the food inactive.
C6_WitnessFull ==
  /\ lastOp.op = "spawn"
  /\ gridSize = 2
  /\ ~SomeCellFree(gridSize, occupiedCells)
  /\ position = Null

\* A GameState call made in a screen for which the transition table lists
\* no transition
UnlistedCall(op, from) ==
  \/ op = "startGame" /\ from \in {"PLAYING", "PAUSED"}
  \/ op \in {"endGame", "win"} /\ from # "PLAYING"
  \/ op = "returnToMenu" /\ from \notin {"GAME_OVER", "WIN"}

\* C7 as claimed: startGame while PLAYING or PAUSED, endGame or win while not
\* PLAYING, and returnToMenu while not GAME_OVER or WIN leave screen, score,
\* level, highScore and isNewRecord unchanged.
C7_UnlistedCallsAreNoOps ==
  [][ UnlistedCall(lastOp'.op, state.screen) => state' = state ]_vars

\* C7 as amended: startGame, endGame, win and returnToMenu do not look at the
\* screen.  Called in a screen without a listed transition they act as from
\* a listed one and raise no error: startGame yields PLAYING with score 0,
\* level 1 and the flag cleared; endGame and win yield GAME_OVER and WIN with
\* the high-score update; returnToMenu yields MENU and changes nothing else.
C7_UnlistedCallsStillAct ==
  [][ UnlistedCall(lastOp'.op, state.screen)
      => /\ thrown' = NoError
         /\ lastOp'.op = "startGame"
              => state' = [screen |-> "PLAYING", score |-> 0, level |-> 1,
                           highScore |-> state.highScore, isNewRecord |-> FALSE]
         /\ lastOp'.op \in {"endGame", "win"}
              => state' = [screen |-> IF lastOp'.op = "win" THEN "WIN" ELSE "GAME_OVER",
                           score |-> state.score,
                           level |-> state.level,
                           highScore |-> IF state.score > state.highScore
                                         THEN state.score ELSE state.highScore,
                           isNewRecord |-> (state.score > state.highScore)
                                           \/ state.isNewRecord]
         /\ lastOp'.op = "returnToMenu"
              => state' = [screen |-> "MENU", score |-> state.score,
                           level |-> state.level, highScore |-> state.highScore,
                           isNewRecord |-> state.isNewRecord] ]_vars

\* C7 witness: returnToMenu was called while PAUSED in a game with points
\* scored, and left the MENU screen.
C7_Witness ==
  /\ lastOp.op = "returnToMenu"
  /\ lastOp.arg = "PAUSED"
  /\ state.screen = "MENU"
  /\ state.score > 0

\* C8: startGame from MENU, GAME_OVER or WIN sets the screen to PLAYING with
\* score 0, level 1 and isNewRecord false and leaves highScore unchanged.
C8_StartGameResets ==
  [][ ( lastOp'.op = "startGame" /\ state.screen \in {"MENU", "GAME_OVER", "WIN"} )
      => ( /\ state'.screen = "PLAYING"
           /\ state'.score = 0
           /\ state'.level = 1
           /\ state'.isNewRecord = FALSE
           /\ state'.highScore = state.highScore ) ]_vars

\* C8 witness: startGame was called on the GAME_OVER screen of a game that
\* had set a new record of 60 points at level 2.
C8_Witness ==
  /\ lastOp.op = "startGame"
  /\ lastOp.arg = "GAME_OVER"
  /\ state.highScore = 60
  /\ state.score = 0

\* C9: pause() changes the screen only from PLAYING to PAUSED and resume()
\* only from PAUSED to PLAYING; in every other screen each is a no-op, and
\* score, level, highScore and isNewRecord are unchanged in all cases.
C9_PauseResume ==
  [][ /\ lastOp'.op = "pause"
        => state' = [state EXCEPT !.screen =
                       IF state.screen = "PLAYING" THEN "PAUSED" ELSE state.screen]
      /\ lastOp'.op = "resume"
        => state' = [state EXCEPT !.screen =
                       IF state.screen = "PAUSED" THEN "PLAYING" ELSE state.screen] ]_vars

\* C9 witness: pause() was called on the GAME_OVER screen with a record set.
C9_Witness ==
  /\ lastOp.op = "pause"
  /\ lastOp.arg = "GAME_OVER"
  /\ state.screen = "GAME_OVER"
  /\ state.isNewRecord
  /\ state.score > 0

\* C10: over any sequence of GameState operations highScore never decreases,
\* and startGame leaves highScore alone while it sets every other field
\* (screen, score, level, isNewRecord) to its start value.
C10_HighScoreMonotone ==
  [][ /\ state'.highScore >= state.highScore
      /\ lastOp'.op = "startGame"
           => /\ state'.highScore = state.highScore
              /\ state'.score = 0 /\ state'.level = 1
              /\ state'.isNewRecord = FALSE /\ state'.screen = "PLAYING" ]_vars

\* C10 witness: a game ended with a score below the high score an earlier
\* game had set.
C10_Witness ==
  /\ lastOp.op = "endGame"
  /\ state.score > 0
  /\ state.highScore > state.score
  /\ state.highScore > MaxInitialHighScore

\* The head of b is outside the n x n grid or on another segment of b
DeadBody(b, n) ==
  \/ b[1].x < 0 \/ b[1].x > n - 1 \/ b[1].y < 0 \/ b[1].y > n - 1
  \/ \E i \in 2..Len(b) : b[i].x = b[1].x /\ b[i].y = b[1].y

\* A step of the game that moved the snake: a tick.  The only other step
\* that changes the body starts a new game, from MENU, GAME_OVER or WIN.
TickStep == state.screen = "PLAYING" /\ body' # body

\* C3 as claimed: a tick after which the snake is dead sets the screen to
\* GAME_OVER and changes neither score, level, food position nor the
\* pending-growth flag.
C3_DeathTickChangesNothing ==
  [][ ( TickStep /\ DeadBody(body', GRID_SIZE) )
      => ( /\ state'.screen = "GAME_OVER"
           /\ state'.score = state.score
           /\ state'.level = state.level
           /\ position' = position
           /\ pendingGrowth' = pendingGrowth ) ]_vars

\* C3 as amended: a tick after which the snake is dead sets the screen to
\* GAME_OVER and changes neither score, level nor food position (no
\* respawn); the pending-growth flag is not set by it and is false
\* afterwards, the move having consumed a growth pending from the tick
\* before.
C3_DeathTickStops ==
  [][ ( TickStep /\ DeadBody(body', GRID_SIZE) )
      => ( /\ state'.screen = "GAME_OVER"
           /\ state'.score = state.score
           /\ state'.level = state.level
           /\ position' = position
           /\ pendingGrowth' = FALSE
           /\ Len(body') = Len(body) + (IF pendingGrowth THEN 1 ELSE 0) ) ]_vars

\* C3 witness: the snake ate at (3,2) on the first tick and left the grid
\* on the second, which kept the tail.
C3_Witness ==
  /\ state.screen = "GAME_OVER"
  /\ state.score = POINTS_PER_FOOD
  /\ body = << [x |-> 4, y |-> 2], [x |-> 3, y |-> 2],
               [x |-> 2, y |-> 2], [x |-> 1, y |-> 2] >>
  /\ position # Null

\* A tick that moved the head onto the active food
EatStep ==
  /\ TickStep
  /\ position # Null
  /\ body'[1].x = position.x /\ body'[1].y = position.y
  /\ ~DeadBody(body', GRID_SIZE)

\* After an eating tick: the food is active on a cell the snake does not
\* occupy, or inactive with the screen WIN
FoodAfterEat ==
  \/ /\ position' # Null
     /\ position'.x \in 0..(GRID_SIZE - 1)
     /\ position'.y \in 0..(GRID_SIZE - 1)
     /\ \A i \in 1..Len(body') :
          ~(body'[i].x = position'.x /\ body'[i].y = position'.y)
  \/ position' = Null /\ state'.screen = "WIN"

\* The tick after an eating tick grows the snake by one: the eating tick
\* sets the growth flag, no input clears it, and a move with the flag set
\* lengthens the body by exactly 1.
GrowsOnNextTick ==
  /\ EatStep => pendingGrowth'
  /\ state.screen \in {"PLAYING", "PAUSED"} /\ body' = body
       => pendingGrowth' = pendingGrowth
  /\ TickStep /\ pendingGrowth => Len(body') = Len(body) + 1

\* C4 as claimed: a tick that moves the head onto the active food raises the
\* score by POINTS_PER_FOOD and leaves the length unchanged, the next tick's
\* move adds 1 to the length, and the food is afterwards active on a cell
\* free of the snake or inactive with the screen WIN.
C4_EatKeepsLength ==
  [][ /\ EatStep => /\ state'.score = state.score + 10
                    /\ Len(body') = Len(body)
                    /\ FoodAfterEat
      /\ GrowsOnNextTick ]_vars

\* C4 as amended: the eating tick leaves the length unchanged unless a
\* growth was pending from an eat on the tick before, in which case that
\* tick itself adds 1; the rest as claimed.
C4_EatThenGrow ==
  [][ /\ EatStep => /\ state'.score = state.score + 10
                    /\ Len(body') = Len(body) + (IF pendingGrowth THEN 1 ELSE 0)
                    /\ FoodAfterEat
      /\ GrowsOnNextTick ]_vars

\* C4 witness: the snake ate on each of its first two ticks, at (3,2) and,
\* turning up, at (3,1); the second of them grew it to four segments.
C4_Witness ==
  /\ state.screen = "PLAYING"
  /\ state.score = 2 * POINTS_PER_FOOD
  /\ pendingGrowth
  /\ body = << [x |-> 3, y |-> 1], [x |-> 3, y |-> 2],
               [x |-> 2, y |-> 2], [x |-> 1, y |-> 2] >>

\* The body covers every cell of the grid
BodyCoversGrid(b) ==
  \A cx \in 0..(GRID_SIZE - 1), cy \in 0..(GRID_SIZE - 1) :
    \E i \in 1..Len(b) : b[i].x = cx /\ b[i].y = cy

\* C5: the screen becomes WIN exactly when the respawn after an eat finds no
\* free cell (the body covers every grid cell); whenever the screen is WIN
\* the food is inactive, and whenever it is PLAYING or PAUSED the food is
\* active.
C5_WinIffBoardFull ==
  /\ [](state.screen = "WIN" => position = Null)
  /\ [](state.screen \in {"PLAYING", "PAUSED"} => position # Null)
  /\ [][ /\ (state.screen # "WIN" /\ state'.screen = "WIN")
             => (EatStep /\ BodyCoversGrid(body'))
         /\ (EatStep /\ BodyCoversGrid(body')) => state'.screen = "WIN" ]_vars

\* C5 witness: the game is won, the sixteen segments covering the grid.
C5_Witness ==
  /\ state.screen = "WIN"
  /\ Len(body) = GRID_SIZE * GRID_SIZE
  /\ position = Null

\* The larger of two numbers
MaxOf(a, b) == IF a >= b THEN a ELSE b

\* C11: endGame or win called from PLAYING makes highScore the larger of the
\* previous highScore and the score, and isNewRecord is true afterwards
\* exactly when the score was strictly greater than the previous highScore;
\* a game ending with a score below the high score of an earlier game leaves
\* highScore unchanged and isNewRecord false.
C11_EndOfGameHighScore ==
  [][ ( lastOp'.op \in {"endGame", "win"} /\ state.screen = "PLAYING" )
      => ( /\ state'.highScore = MaxOf(state.highScore, state.score)
           /\ state'.isNewRecord = (state.score > state.highScore)
           /\ state.score < state.highScore
                => (state'.highScore = state.highScore /\ ~state'.isNewRecord) ) ]_vars

\* C11 witness: a game was won from PLAYING with a score below the record an
\* earlier game had set; the flag is false.
C11_Witness ==
  /\ lastOp.op = "win"
  /\ lastOp.arg = "PLAYING"
  /\ state.screen = "WIN"
  /\ state.score > 0
  /\ state.highScore > MaxInitialHighScore
  /\ state.score < state.highScore
  /\ ~state.isNewRecord

\* C13: each addScore call adds POINTS_PER_FOOD (10) to the score and sets
\* the level to min(floor(score / 50) + 1, 10) of the new score; the level
\* is always within 1..MAX_LEVEL and decreases on no call but the startGame
\* that begins the next game.
C13_ScoreAndLevel ==
  /\ [](state.level >= 1 /\ state.level <= 10)
  /\ [][ lastOp'.op = "addScore"
         => /\ state'.score = state.score + 10
            /\ state'.level = IF (state'.score \div 50) + 1 < 10
                              THEN (state'.score \div 50) + 1 ELSE 10 ]_vars
  /\ [][ lastOp'.op # "startGame" => state'.level >= state.level ]_vars

\* C13 witness: addScore took the score to 500, where the uncapped level
\* would be 11, and the level is 10.
C13_Witness ==
  /\ lastOp.op = "addScore"
  /\ state.score = 500
  /\ state.level = 10

\* C14: addScore returns leveledUp = true exactly when the level after the
\* call is greater than the level before it, which is on every fifth call of
\* a game (the score reaching a multiple of 50) up to level 10, and false on
\* every call made at level 10; newLevel is the level after the call.
C14_LeveledUp ==
  [][ lastOp'.op = "addScore"
      => /\ returned'.leveledUp = (state'.level > state.level)
         /\ returned'.leveledUp = (state'.score % 50 = 0 /\ state'.score <= 450)
         /\ state.level = 10 => ~returned'.leveledUp
         /\ returned'.newLevel = state'.level ]_vars

\* C14 witness: the call that took the score to 500 at level 10 reported no
\* level-up, in a game whose earlier calls had reported nine.
C14_Witness ==
  /\ lastOp.op = "addScore"
  /\ returned # Null
  /\ ~returned.leveledUp
  /\ returned.newLevel = 10
  /\ state.score = 500

\* A second case of C14: the fifth call of a game reported the level-up to 2.
C14_WitnessCrossing ==
  /\ lastOp.op = "addScore"
  /\ returned # Null
  /\ returned.leveledUp
  /\ returned.newLevel = 2
  /\ state.score = 50

\* The score of a saveHighScore call is not above the persisted high score p
NotAbove(score, p) ==
  \/ score.t = "int" /\ score.v <= p
  \/ score.t = "frac" /\ score.v < p

\* C12: with localStorage working, after every tick that ends a game (death
\* or win) the persisted high score, as loadHighScore reads it back, is the
\* larger of the value persisted before and the final score of the game; and
\* saveHighScore never lowers the persisted value and leaves the stored item
\* unchanged for an equal, lower, negative or non-finite score.
C12_PersistedHighScore ==
  [][ /\ ( TickStep /\ state'.screen \in {"GAME_OVER", "WIN"} )
           => loadHighScore(stored') = MaxOf(loadHighScore(stored), state'.score)
      /\ lastOp'.op = "saveHighScore"
           => /\ loadHighScore(stored') >= loadHighScore(stored)
              /\ ( \/ lastOp'.arg.t \in {"nan", "inf"}
                   \/ lastOp'.arg.v < 0
                   \/ NotAbove(lastOp'.arg, loadHighScore(stored)) )
                   => stored' = stored ]_vars

\* A visibilitychange event that found the tab hidden, and one that found
\* it visible again
HiddenStep == ~hidden /\ hidden'

VisibleStep == hidden /\ ~hidden'

\* C15: a hidden event while the screen is PLAYING makes it PAUSED and
\* changes nothing else of the GameState, so the screen is never PLAYING
\* right after a hidden event; a hidden event in any other screen changes
\* neither the GameState, the auto-pause flag, the snake, the food nor the
\* stored high score.
C15_HiddenPauses ==
  [][ HiddenStep
      => /\ state'.screen # "PLAYING"
         /\ state.screen = "PLAYING"
              => state' = [state EXCEPT !.screen = "PAUSED"]
         /\ state.screen # "PLAYING"
              => /\ state' = state
                 /\ wasPlayingBeforeHide' = wasPlayingBeforeHide
                 /\ <<body, direction, directionQueue, pendingGrowth>>'
                      = <<body, direction, directionQueue, pendingGrowth>>
                 /\ position' = position
                 /\ stored' = stored ]_vars

\* C15 witness: the tab was hidden in the middle of a game, which is now
\* paused by it.
C15_Witness ==
  /\ lastOp.op = "visibilitychange"
  /\ hidden
  /\ state.screen = "PAUSED"
  /\ pauseCause = "hidden"
  /\ moves > 0

\* A second case of C15: the tab was hidden on the GAME_OVER screen.
C15_WitnessGameOver ==
  /\ lastOp.op = "visibilitychange"
  /\ hidden
  /\ state.screen = "GAME_OVER"
  /\ ~wasPlayingBeforeHide

\* C16: under any interleaving of hidden and visible events with pause,
\* confirm and direction inputs, a visible event changes the screen from
\* PAUSED to PLAYING only if the pause in force was caused by a hidden event;
\* a pause the user requested is never undone by the tab becoming visible.
C16_OnlyAutoPauseResumed ==
  [][ ( VisibleStep /\ state.screen = "PAUSED" /\ state'.screen = "PLAYING" )
      => pauseCause = "hidden" ]_vars

\* C17: move() leaves the length unchanged when grow() was not called since
\* the previous move() and adds exactly 1 when it was called, however many
\* times.  The growth flag is that history: false in a new snake, set by
\* every grow(), left alone by enqueueDirection and cleared by every move();
\* so two grow() calls before a move yield one extra segment and the move
\* after adds none.
C17_MoveLength ==
  /\ [](lastOp.op = "none" => ~pendingGrowth)
  /\ [][ /\ lastOp'.op = "grow" => (pendingGrowth' /\ body' = body)
         /\ lastOp'.op = "enqueueDirection"
              => (pendingGrowth' = pendingGrowth /\ body' = body)
         /\ lastOp'.op = "move"
              => /\ ~pendingGrowth'
                 /\ Len(body') = Len(body) + (IF pendingGrowth THEN 1 ELSE 0) ]_vars

\* C17 witness: of three moves exactly one came after grow(), the last came
\* without, and the snake has four segments.
C17_Witness ==
  /\ lastOp.op = "move"
  /\ moves = 3
  /\ Len(body) = 4
  /\ ~pendingGrowth

\* The Manhattan distance of two cells
Manhattan(a, b) ==
  (IF a.x >= b.x THEN a.x - b.x ELSE b.x - a.x)
    + (IF a.y >= b.y THEN a.y - b.y ELSE b.y - a.y)

\* C18: after any sequence of enqueueDirection, grow and move calls from a
\* new snake, every two consecutive body segments are at Manhattan distance
\* exactly 1.
C18_Contiguous ==
  \A i \in 1..(Len(body) - 1) : Manhattan(body[i], body[i + 1]) = 1

\* C18 witness: a snake grown to six segments that has turned off its row.
C18_Witness ==
  /\ lastOp.op = "move"
  /\ Len(body) = 6
  /\ body[1].y # body[Len(body)].y
  /\ body[1].x # body[2].x

\* C20: the pending direction queue never holds more than
\* MAX_DIRECTION_QUEUE (2) entries; enqueueDirection on a full queue, or with
\* the effective direction, leaves the queue unchanged and raises no error.
C20_QueueCap ==
  /\ [](Len(directionQueue) <= 2)
  /\ [][ ( /\ lastOp'.op = "enqueueDirection"
           /\ lastOp'.arg # Null
           /\ \/ Len(directionQueue) = 2
              \/ lastOp'.arg.name = EffectiveBefore )
         => ( directionQueue' = directionQueue /\ thrown' = NoError ) ]_vars

\* C20 witness: a direction that is neither the effective direction nor its
\* opposite was just requested on a full queue.
C20_Witness ==
  /\ lastOp.op = "enqueueDirection"
  /\ lastOp.arg # Null
  /\ Len(directionQueue) = 2
  /\ lastOp.arg.name # directionQueue[2].name
  /\ lastOp.arg.name # OppositeName(directionQueue[2].name)

\* C19: while the screen is PLAYING or PAUSED there is a snake and it is
\* alive: its segments are pairwise distinct cells inside [0, GRID_SIZE) on
\* both axes; a snake whose head is outside the grid or on another segment
\* exists only while the screen is GAME_OVER, or MENU after it.
C19_AliveWhilePlaying ==
  /\ state.screen \in {"PLAYING", "PAUSED"}
       => /\ hasGame
          /\ Len(body) >= 3
          /\ \A i \in 1..Len(body) :
               /\ body[i].x >= 0 /\ body[i].x < GRID_SIZE
               /\ body[i].y >= 0 /\ body[i].y < GRID_SIZE
          /\ Cardinality({body[i] : i \in 1..Len(body)}) = Len(body)
  /\ (hasGame /\ DeadBody(body, GRID_SIZE))
       => state.screen \in {"GAME_OVER", "MENU"}

\* C19 witness: a paused game with a snake of ten segments, none of which
\* the ticks before let it run into.
C19_Witness ==
  /\ state.screen = "PAUSED"
  /\ Len(body) = 10
  /\ body[1].x = 0 /\ body[1].y = 0

\* A second case of C19: the game is over, the head inside the grid on
\* another segment.
C19_WitnessSelfCollision ==
  /\ state.screen = "GAME_OVER"
  /\ body[1].x \in 0..(GRID_SIZE - 1)
  /\ body[1].y \in 0..(GRID_SIZE - 1)
  /\ \E i \in 2..Len(body) : body[i] = body[1]

\* C21: accepted directions are applied in the order they were enqueued, one
\* per move(): enqueueDirection only ever appends at the end of the queue;
\* move() removes the oldest queued direction, makes it the active direction
\* and puts the new head at the old head plus that direction's delta; with an
\* empty queue move() keeps the active direction.
C21_QueueOrder ==
  [][ /\ lastOp'.op = "enqueueDirection" /\ lastOp' # lastOp
           => \/ directionQueue' = directionQueue
              \/ directionQueue' = Append(directionQueue, lastOp'.arg)
      /\ lastOp'.op = "enqueueDirection" /\ directionQueue' # directionQueue
           => /\ Len(directionQueue') = Len(directionQueue) + 1
              /\ SubSeq(directionQueue', 1, Len(directionQueue)) = directionQueue
      /\ moves' = moves + 1
           => /\ Len(directionQueue) > 0
                   => /\ direction' = directionQueue[1]
                      /\ directionQueue' =
                           SubSeq(directionQueue, 2, Len(directionQueue))
              /\ Len(directionQueue) = 0
                   => /\ direction' = direction
                      /\ directionQueue' = << >>
              /\ body'[1] = [x |-> body[1].x + direction'.dx,
                             y |-> body[1].y + direction'.dy] ]_vars

\* Two queued turns (UP, then LEFT) were consumed by two moves in that order
C21_Witness ==
  /\ lastOp.op = "move"
  /\ moves = 2
  /\ directionQueue = << >>
  /\ direction = DIRECTIONS.LEFT
  /\ body[1] = [x |-> Floor2(gridSize) - 1, y |-> Floor2(gridSize) - 1]

C22_WitnessPaused ==
  /\ lastOp.op = "direction"
  /\ state.screen = "PAUSED"
  /\ hasGame
  /\ directionQueue = << >>
  /\ lastOp.arg.name # direction.name
  /\ lastOp.arg.name # OPPOSITE_DIRECTIONS[direction.name]

\* The head is inside [0, gridSize) on both axes
HeadInside ==
  /\ body[1].x >= 0 /\ body[1].x <= gridSize - 1
  /\ body[1].y >= 0 /\ body[1].y <= gridSize - 1

\* C23: a new snake on a 5x5 grid that is moved repeatedly with no direction
\* input reports isOutOfBounds() and isDead() true after finitely many moves,
\* and reports both false as long as its head is inside the grid.
C23_EventuallyOut ==
  /\ [](HeadInside => ~isOutOfBounds(body, gridSize) /\ ~isDead(body, gridSize))
  /\ <>(gridSize = 5 => isOutOfBounds(body, gridSize) /\ isDead(body, gridSize))

\* The third move took the head of the 5x5 snake across the right wall
C23_Witness ==
  /\ gridSize = 5
  /\ lastOp.op = "move"
  /\ moves = 3
  /\ body[1] = [x |-> 5, y |-> 2]
  /\ body[2] = [x |-> 4, y |-> 2]
  /\ isOutOfBounds(body, gridSize)
  /\ isDead(body, gridSize)

\* The intervals of levels 1..10 with the constants of the game
GameTickIntervals == <<200, 180, 160, 140, 120, 100, 80, 60, 60, 60>>

C27_RangeErrors ==
  /\ lastOp.op \in {"randomInt", "clamp"}
       => /\ lastOp.arg.min > lastOp.arg.max => thrown = "RangeError"
          /\ lastOp.arg.min <= lastOp.arg.max => thrown = NoError
  /\ (lastOp.op = "randomInt" /\ lastOp.arg.min <= lastOp.arg.max)
       => returned \in lastOp.arg.min..lastOp.arg.max
  /\ (lastOp.op = "clamp" /\ lastOp.arg.min <= lastOp.arg.max)
       => returned = (IF lastOp.arg.value < lastOp.arg.min THEN lastOp.arg.min
                      ELSE IF lastOp.arg.value > lastOp.arg.max
                        THEN lastOp.arg.max
                      ELSE lastOp.arg.value)

\* clamp was called with min above max and raised the RangeError
C27_Witness ==
  /\ lastOp.op = "clamp"
  /\ lastOp.arg.min > lastOp.arg.max
  /\ thrown = "RangeError"

\* randomInt returned its upper bound
C27_WitnessRandomMax ==
  /\ lastOp.op = "randomInt"
  /\ lastOp.arg.min < lastOp.arg.max
  /\ thrown = NoError
  /\ returned = lastOp.arg.max

\* clamp pulled a value above max down to max
C27_WitnessClamped ==
  /\ lastOp.op = "clamp"
  /\ lastOp.arg.min < lastOp.arg.max
  /\ lastOp.arg.value > lastOp.arg.max
  /\ returned = lastOp.arg.max

\* C28: for every occupied-cell list, every free grid cell is a possible
\* outcome of spawn and no other cell is: a spawn call that leaves the food
\* on the cell c can be made exactly when c is a free cell of the grid.
C28_EveryFreeCellPossible ==
  \A c \in CellsAround(gridSize) :
    IsFreeCell(c, gridSize, occupiedCells)
      <=> ENABLED (Spawn /\ UNCHANGED pauseCause /\ position' = c)

\* spawn chose the last cell of the free list: with three free cells of the
\* 2 x 2 grid, the food lies on (1,1)
C28_Witness ==
  /\ lastOp.op = "spawn"
  /\ gridSize = 2
  /\ occupiedCells = <<[x |-> 0, y |-> 0]>>
  /\ position = [x |-> 1, y |-> 1]

\* spawn chose the first cell of the free list
C28_WitnessFirst ==
  /\ lastOp.op = "spawn"
  /\ gridSize = 2
  /\ occupiedCells = <<[x |-> 1, y |-> 1]>>
  /\ position = [x |-> 0, y |-> 0]

\* C25: each tick triggers at most one audio cue: 'die' exactly when the
\* snake is dead after the move, 'levelup' exactly when it ate the food and
\* the level rose, 'eat' exactly when it ate the food and the level did not
\* rise, and none on a tick that neither kills nor eats.
C25_OneCuePerTick ==
  [][ TickStep
        => /\ Len(cues') <= 1
           /\ cues' = <<"die">> <=> DeadBody(body', GRID_SIZE)
           /\ cues' = <<"levelup">>
                <=> (EatStep /\ state'.level > state.level)
           /\ cues' = <<"eat">>
                <=> (EatStep /\ state'.level = state.level)
           /\ cues' = << >>
                <=> (~DeadBody(body', GRID_SIZE) /\ ~EatStep) ]_vars

\* The fifth food was eaten: the score reached 50, the level 2, and the cue
\* of that tick is 'levelup' alone
C25_Witness ==
  /\ cues = <<"levelup">>
  /\ state.score = POINTS_PER_LEVEL
  /\ state.level = 2
  /\ pendingGrowth

\* A tick ate without a level-up
C25_WitnessEat ==
  /\ cues = <<"eat">>
  /\ state.score = POINTS_PER_FOOD
  /\ pendingGrowth

\* A tick killed the snake
C25_WitnessDie ==
  /\ cues = <<"die">>
  /\ state.screen = "GAME_OVER"
  /\ state.score > 0

\* C26: storage failures never propagate: no call raises; when reading
\* storage throws, loadHighScore returns 0 and loadMute returns false; when
\* writing storage throws, saveHighScore and saveMute return normally and
\* leave the stored items as they were, and a death tick still ends with the
\* screen GAME_OVER and the in-memory highScore raised to the score.
C26_StorageFailuresContained ==
  /\ [](thrown = NoError)
  /\ [][ /\ (lastOp'.op = "loadHighScore" /\ getThrows) => returned' = 0
         /\ (lastOp'.op = "loadMute" /\ getThrows) => returned' = FALSE
         /\ (lastOp'.op \in {"saveHighScore", "saveMute"} /\ setThrows)
              => /\ thrown' = NoError
                 /\ stored' = stored
                 /\ storedMute' = storedMute
         /\ (lastOp'.op = "tick" /\ DeadBody(body', GRID_SIZE))
              => /\ thrown' = NoError
                 /\ state'.screen = "GAME_OVER"
                 /\ state'.highScore = MaxOf(state.highScore, state.score)
                 /\ setThrows => stored' = stored ]_vars

\* The snake ate and then died with reads and writes of storage throwing:
\* the game is over with the new high score in memory, nothing was written
C26_Witness ==
  /\ lastOp.op = "tick"
  /\ getThrows
  /\ setThrows
  /\ state.screen = "GAME_OVER"
  /\ state.highScore = POINTS_PER_FOOD
  /\ state.isNewRecord
  /\ stored = Item(<<"5", "0", "0">>)
  /\ thrown = NoError

\* loadHighScore returned 0 although a valid score is stored, reads throwing
C26_WitnessLoad ==
  /\ lastOp.op = "loadHighScore"
  /\ getThrows
  /\ stored = Item(<<"2", "0">>)
  /\ returned = 0

\* saveMute(true) returned normally with writes throwing
C26_WitnessSaveMute ==
  /\ lastOp.op = "saveMute"
  /\ lastOp.arg = TRUE
  /\ setThrows
  /\ storedMute = Null
  /\ thrown = NoError

C29_WitnessPaused ==
  /\ lastOp = [op |-> "update", arg |-> 400]
  /\ state.screen = "PAUSED"
  /\ tickAccum = 100
  /\ moves = 1

\* An _update call was made in GAME_OVER
C29_WitnessGameOver ==
  /\ lastOp = [op |-> "update", arg |-> 400]
  /\ state.screen = "GAME_OVER"
  /\ DeadBody(body, GRID_SIZE)

\* C30 as claimed: within a PLAYING frame the delta is added to the
\* accumulator, a tick is executed while and only while the accumulator is at
\* least the tick interval of the level current at that moment (a level
\* reached by an earlier tick of the same frame included), and each tick
\* subtracts the interval of the level current when it runs.
C30_TicksByCurrentLevel ==
  [][ /\ (lastOp'.op = "update" /\ state.screen = "PLAYING")
           => tickAccum' = tickAccum + lastOp'.arg
      /\ (lastOp'.op \in {"update", "tick"} /\ state'.screen = "PLAYING")
           => (frame'.active <=> tickAccum' >= GameTickIntervals[state'.level])
      /\ lastOp'.op = "tick"
           => tickAccum' = tickAccum - GameTickIntervals[state.level] ]_vars

\* C40 as claimed: for every grid size n >= 3 the three segments of a newly
\* constructed Snake(n) are grid coordinates of [0, n) on both axes, the head
\* at (floor(n/2), floor(n/2)) and the two other segments directly to its
\* left.
C40_NewSnakeInGrid ==
  (lastOp.op = "none" /\ gridSize >= 3)
    => /\ Len(body) = 3
       /\ body[1] = [x |-> gridSize \div 2, y |-> gridSize \div 2]
       /\ body[2] = [x |-> body[1].x - 1, y |-> body[1].y]
       /\ body[3] = [x |-> body[1].x - 2, y |-> body[1].y]
       /\ \A i \in 1..3 : /\ body[i].x >= 0 /\ body[i].x < gridSize
                          /\ body[i].y >= 0 /\ body[i].y < gridSize

\* The cell of the tail occurs once in the body
TailCellOnce(b) ==
  \A i \in 1..(Len(b) - 1) : b[i] # b[Len(b)]

\* C37: a move whose new head lands on the cell the tail occupied before the
\* move is not a self-collision when no growth was pending (the tail has
\* left the cell) and is a self-collision when growth was pending (the tail
\* is kept).
C37_TailCell ==
  [][ (moves' = moves + 1 /\ body'[1] = body[Len(body)])
        => /\ (~pendingGrowth /\ TailCellOnce(body))
                => ~isSelfColliding(body')
           /\ pendingGrowth => isSelfColliding(body') ]_vars

\* The head moved onto the cell the tail had just left: no self-collision
C37_Witness ==
  /\ lastOp.op = "move"
  /\ Len(body) = 4
  /\ body[1].x = body[4].x /\ body[1].y = body[4].y + 1
  /\ Cardinality({body[i] : i \in 1..4}) = 4
  /\ ~isSelfColliding(body)

\* The head moved onto the cell of the tail, which a pending growth kept
C37_WitnessGrowth ==
  /\ lastOp.op = "move"
  /\ Len(body) = 5
  /\ body[1] = body[5]
  /\ isSelfColliding(body)

C38_WitnessResume ==
  /\ lastOp.op = "confirm"
  /\ state.screen = "PLAYING"
  /\ state.score > 0
  /\ moves >= 1

\* C35: whenever the food is active, its position is a cell of the grid that
\* no segment of the snake occupies, after any sequence of ticks, direction
\* inputs, pauses and new-game starts.
C35_FoodOnFreeCell ==
  (hasGame /\ position # Null)
    => /\ position.x \in 0..(GRID_SIZE - 1)
       /\ position.y \in 0..(GRID_SIZE - 1)
       /\ \A i \in 1..Len(body) : body[i] # position

\* The food respawned after the snake ate, the tick after a turn
C35_Witness ==
  /\ lastOp.op = "tick"
  /\ position # Null
  /\ state.score = 10
  /\ moves = 2
  /\ body[1].y # GRID_SIZE \div 2

\* The food of a second game, started after the first one was lost
C35_WitnessNewGame ==
  /\ lastOp.op = "confirm"
  /\ position # Null
  /\ moves >= 2
  /\ state.screen = "PLAYING"
  /\ state.score = 0

\* C36: from the start of a game until the next new game, in every state
\* between ticks, the score is POINTS_PER_FOOD * (snake length - 3 + g), g
\* being 1 if a growth is pending and 0 otherwise; in PLAYING, PAUSED,
\* GAME_OVER and WIN alike.
C36_ScoreByLength ==
  (hasGame /\ state.screen \in {"PLAYING", "PAUSED", "GAME_OVER", "WIN"})
    => state.score =
         10 * (Len(body) - 3 + (IF pendingGrowth THEN 1 ELSE 0))

\* A game lost on the tick after its second food: the move of the losing
\* tick made the pending growth
C36_Witness ==
  /\ state.screen = "GAME_OVER"
  /\ state.score = 20
  /\ Len(body) = 5
  /\ ~pendingGrowth

\* A game in progress with the growth of its third food pending
C36_WitnessPending ==
  /\ state.screen = "PAUSED"
  /\ state.score = 30
  /\ Len(body) = 5
  /\ pendingGrowth

\* A game won
C36_WitnessWin ==
  /\ state.screen = "WIN"
  /\ state.score = 10 * (GRID_SIZE * GRID_SIZE - 3 + 1)

C39_WitnessBefore ==
  /\ state.screen = "GAME_OVER"
  /\ tickAccum > 0
  /\ shakeTimeLeft > 0

\* C31 as claimed: the shake state is advanced on every frame, whatever the
\* screen: once a death has set the shake timer to 300 ms, every later frame,
\* the screen being GAME_OVER or MENU, takes its delta off the running timer
\* (so that the timer has run out, and the offset is back to {x: 0, y: 0},
\* once 300 ms of frame time have passed).
C31_ShakeEveryFrame ==
  [][ ( /\ lastOp'.op = "frame"
        /\ state.screen \in {"GAME_OVER", "MENU"}
        /\ shakeTimeLeft > 0 )
        => LET elapsed == lastOp'.arg - lastTimestamp.ms
               delta == IF elapsed < 200 THEN elapsed ELSE 200
           IN  shakeTimeLeft' = shakeTimeLeft - delta ]_vars

\* C33: for timestamps that never decrease, the delta of a frame is
\* min(timestamp - previous timestamp, 200), and 0 on the first frame; the
\* first frame never executes a tick; no frame adds more than 200 ms to the
\* tick accumulator.
C33_FrameDelta ==
  [][ lastOp'.op = "frame"
        => LET timestamp == lastOp'.arg
               delta == IF lastTimestamp = Null THEN 0
                        ELSE IF timestamp - lastTimestamp.ms < 200
                        THEN timestamp - lastTimestamp.ms
                        ELSE 200
           IN  /\ lastTimestamp # Null => timestamp >= lastTimestamp.ms
               /\ lastTimestamp' = [ms |-> timestamp]
               /\ state.screen = "PLAYING"
                    => /\ frame'.deltaMs = delta
                       /\ tickAccum' = tickAccum + delta
               /\ lastTimestamp = Null => ~frame'.active /\ tickAccum' = 0
               /\ tickAccum' <= tickAccum + 200 ]_vars

\* A frame of a game in progress that came a second or more after the frame
\* before it and added 200 ms
C33_Witness ==
  /\ lastOp.op = "frame"
  /\ lastOp.arg = 1000
  /\ state.screen = "PLAYING"
  /\ frame.deltaMs = 200
  /\ tickAccum = 200
  /\ frame.active

\* The first frame, in a game started before it
C33_WitnessFirst ==
  /\ lastOp.op = "frame"
  /\ lastOp.arg = 300
  /\ lastTimestamp = [ms |-> 300]
  /\ state.screen = "PLAYING"
  /\ frame.deltaMs = 0
  /\ tickAccum = 0

\* C32: time spent outside PLAYING never turns into ticks: a frame processed
\* while the screen is not PLAYING leaves the tick accumulator unchanged and
\* runs no tick, and so do the pause and the resume themselves (user pause or
\* tab-visibility pause, however long); the first frame after the resume
\* therefore executes exactly the ticks that the accumulator held at pause
\* time plus the clamped delta of that one frame produce.
C32_PausedTimeNoTicks ==
  [][ /\ ( /\ state.screen # "PLAYING"
           /\ ~( lastOp'.op = "confirm"
                   /\ state.screen \in {"MENU", "GAME_OVER", "WIN"} ) )
           => tickAccum' = tickAccum /\ ~frame'.active
      /\ ( /\ state.screen = "PLAYING"
           /\ lastOp'.op \in {"pause", "visibilitychange", "confirm"} )
           => tickAccum' = tickAccum /\ ~frame'.active
      /\ (state.screen = "PLAYING" /\ lastOp'.op = "frame")
           => LET elapsed == IF lastTimestamp = Null THEN 0
                             ELSE lastOp'.arg - lastTimestamp.ms
                  delta == IF elapsed < 200 THEN elapsed ELSE 200
              IN  /\ tickAccum' = tickAccum + delta
                  /\ frame'.active
                       <=> tickAccum + delta >= GameTickIntervals[state.level]
      /\ lastOp'.op = "tick"
           => /\ tickAccum' = tickAccum - GameTickIntervals[state.level]
              /\ tickAccum' >= 0
              /\ frame'.active
                   <=> /\ state'.screen = "PLAYING"
                       /\ tickAccum' >= GameTickIntervals[state.level] ]_vars

\* A frame of a game in progress that came a second or more after the start
\* and found 100 ms in the accumulator: with its own 200 ms it has one tick
\* to run
C32_Witness ==
  /\ lastOp.op = "frame"
  /\ lastOp.arg >= 1000
  /\ state.screen = "PLAYING"
  /\ moves = 0
  /\ frame.deltaMs = 200
  /\ tickAccum = 300
  /\ frame.active

\* A frame processed during a pause, the accumulator still at 100 ms
C32_WitnessPaused ==
  /\ lastOp.op = "frame"
  /\ lastOp.arg >= 1000
  /\ state.screen = "PAUSED"
  /\ tickAccum = 100

\* The tab is visible again and the game resumed, the accumulator still at
\* the 100 ms of the pause
C32_WitnessResumed ==
  /\ lastOp.op = "visibilitychange"
  /\ ~hidden
  /\ state.screen = "PLAYING"
  /\ lastTimestamp # Null
  /\ lastTimestamp.ms >= 1000
  /\ moves = 0
  /\ tickAccum = 100

\* C34: with the constants of the game (deltas capped at 200 ms, intervals
\* from 200 down to 60 ms) the tick loop of every frame terminates: every
\* pass takes a positive interval off the accumulator, no frame executes
\* more than 4 ticks at any level, and no frame executes more than 1 tick
\* while the level is 1, however long the real time between the frames.
C34_TicksPerFrame ==
  /\ [](frame.ticks <= 4)
  /\ []((frame.active /\ state.level = 1) => frame.ticks = 0)
  /\ [][ lastOp'.op = "tick"
           => /\ frame.interval >= 60
              /\ tickAccum' = tickAccum - frame.interval
              /\ tickAccum' >= 0 ]_vars

\* A frame that ran four ticks at level 8 or above, the frame coming a
\* second after the one before it
C34_Witness ==
  /\ frame.ticks = 4
  /\ ~frame.active
  /\ frame.interval = 60
  /\ state.level >= 8
  /\ state.screen = "PLAYING"

\* A frame at level 1 that ran its one tick on an accumulator of 300 ms
C34_WitnessLevel1 ==
  /\ frame.ticks = 1
  /\ ~frame.active
  /\ frame.deltaMs = 200
  /\ state.level = 1
  /\ state.screen = "PLAYING"
  /\ tickAccum = 100

====
